---- MODULE Spec2Model ----
(***************************************************************************)
(* College-search backend (Flask + MongoDB): the request handlers of       *)
(* routes_schools.py, routes_programs.py, the ROI arithmetic of            *)
(* routes_aggregations.py / routes_analytics.py and the query building of  *)
(* models.py.                                                              *)
(*                                                                         *)
(* A Python dict value that may be None/absent is a set with at most one   *)
(* element: {} is None, {v} is the value v.  Query-string arguments are    *)
(* texts: sequences of one-character strings, so that int() and float()    *)
(* are real conversions.  Rates and shares are in hundredths.              *)
(***************************************************************************)
EXTENDS Integers, Sequences, FiniteSets, TLC

VARIABLES
    schools,                  \* collection 'schools'
    academics_programs,       \* collection 'academics_programs'
    costs_aid_completion,     \* collection 'costs_aid_completion'
    admissions_student,       \* collection 'admissions_student'
    programs_field_of_study,  \* collection 'programs_field_of_study'
    pc,                       \* "idle" | "counted" | "responded" | "roi" | "doc" | "paging"
                              \* | "db"
    req,                      \* the request being served
    resp,                     \* the response of the handler
    calls,                    \* data-store calls the request issued, in order
    roi,                      \* inputs and outputs of the ROI arithmetic
    fetched,                  \* a fetched institution document and costs record,
                              \* with what normalization and merge make of them
    db_instance               \* database.py: the Database singleton, the clients it
                              \* created and the outcome of the last call on it

vars == <<schools, academics_programs, costs_aid_completion, admissions_student,
          programs_field_of_study, pc, req, resp, calls, roi, fetched, db_instance>>

collections == <<schools, academics_programs, costs_aid_completion,
                 admissions_student, programs_field_of_study>>

----------------------------------------------------------------------------
(* Bounds *)

MaxSchools == 4      \* school ids 1..MaxSchools may be in the collection
MaxFailAt == 3       \* the k-th data-store call of a request may raise, k <= MaxFailAt
MaxAmount == 3       \* cost and earnings of the ROI arithmetic range over -2..MaxAmount
MaxPrice == 1        \* a net price of a nested document ranges over 0..MaxPrice
MaxDbCalls == 4      \* at most MaxDbCalls calls are made on the Database singleton

----------------------------------------------------------------------------
(* Optional values and Python truthiness *)

None == {}
Some(v) == {v}
Has(o) == o # {}
The(o) == CHOOSE v \in o : TRUE
Opt(S) == {None} \cup {Some(v) : v \in S}

TruthyInt(o) == Has(o) /\ The(o) # 0
TruthyStr(o) == Has(o) /\ The(o) # ""
TruthySeq(o) == Has(o) /\ The(o) # <<>>

Min(a, b) == IF a <= b THEN a ELSE b
Max(a, b) == IF a >= b THEN a ELSE b

----------------------------------------------------------------------------
(* Text conversions: int(text), float(text), text.split(',') *)

DigitChars == {"0", "1", "2", "3", "4", "5", "6", "7", "8", "9"}

DigitVal(c) ==
    CASE c = "0" -> 0 [] c = "1" -> 1 [] c = "2" -> 2 [] c = "3" -> 3
      [] c = "4" -> 4 [] c = "5" -> 5 [] c = "6" -> 6 [] c = "7" -> 7
      [] c = "8" -> 8 [] c = "9" -> 9

IsDigits(s) == Len(s) > 0 /\ \A i \in 1..Len(s) : s[i] \in DigitChars

RECURSIVE DigitsValue(_)
DigitsValue(s) ==
    IF s = <<>> THEN 0
    ELSE 10 * DigitsValue(SubSeq(s, 1, Len(s) - 1)) + DigitVal(s[Len(s)])

\* str.strip(): leading and trailing blanks removed
RECURSIVE Strip(_)
Strip(s) ==
    IF s = <<>> THEN s
    ELSE IF s[1] = " " THEN Strip(Tail(s))
    ELSE IF s[Len(s)] = " " THEN Strip(SubSeq(s, 1, Len(s) - 1))
    ELSE s

\* int(text): Some(n), or None when int() raises ValueError
ParseInt(s) ==
    LET t == Strip(s)
    IN  IF IsDigits(t) THEN Some(DigitsValue(t))
        ELSE IF Len(t) > 1 /\ t[1] = "-" /\ IsDigits(Tail(t)) THEN Some(0 - DigitsValue(Tail(t)))
        ELSE None

\* float(text) in hundredths for texts "d", "d.d", "d.dd"; None when float() raises
ParseFloat(s) ==
    LET t == Strip(s)
        dots == {i \in 1..Len(t) : t[i] = "."}
    IN  IF IsDigits(t) THEN Some(100 * DigitsValue(t))
        ELSE IF Cardinality(dots) = 1
             THEN LET d == The(dots)
                      ip == SubSeq(t, 1, d - 1)
                      fp == SubSeq(t, d + 1, Len(t))
                  IN  IF (ip = <<>> \/ IsDigits(ip)) /\ IsDigits(fp) /\ Len(fp) <= 2
                      THEN Some(100 * DigitsValue(ip)
                                + (IF Len(fp) = 1 THEN 10 * DigitsValue(fp) ELSE DigitsValue(fp)))
                      ELSE None
             ELSE None

\* text.split(','): the tokens between commas, empty tokens included
RECURSIVE SplitComma(_, _)
SplitComma(s, cur) ==
    IF s = <<>> THEN <<cur>>
    ELSE IF s[1] = "," THEN <<cur>> \o SplitComma(Tail(s), <<>>)
    ELSE SplitComma(Tail(s), Append(cur, s[1]))

----------------------------------------------------------------------------
(* Documents of the five collections.  The nested Mongo documents are     *)
(* flattened: one field per physical path the handlers read.              *)

Years == {2020, 2023}
Majors == {"computer", "history"}

\* a document of 'schools'; `name` is the collation rank of school.name
SchoolDoc(i) ==
    [ school_id        |-> i,
      name             |-> 10 - i,
      state            |-> IF i % 3 = 2 THEN "NY" ELSE "CA",       \* school.state
      ownership        |-> CASE i = 3 -> 1 [] i = 4 -> 3
                             [] OTHER -> ((i - 1) % 3) + 1,        \* school.ownership
      degree_level     |-> i % 4,                                  \* school.degrees_awarded.predominant
      size             |-> CASE i = 1 -> Some(300) [] i = 2 -> Some(300) [] i = 3 -> None
                             [] OTHER -> Some(100),                \* latest.student.size
      tuition_in_state |-> CASE i = 1 -> Some(10) [] i = 2 -> Some(40) [] i = 4 -> None
                             [] OTHER -> Some(30),                 \* latest.cost.tuition.in_state
      avg_net_price    |-> CASE i = 2 -> Some(45) [] i = 3 -> Some(0)
                             [] OTHER -> None,                     \* latest.cost.avg_net_price.overall
      earnings         |-> CASE i = 1 -> Some(50) [] i = 2 -> None
                             [] OTHER -> Some(20),                 \* latest.earnings.10_yrs_after_entry.median
      admission_rate   |-> CASE i = 1 -> Some(80) [] i = 3 -> None
                             [] OTHER -> Some(20),                 \* latest.admissions.admission_rate.overall
      completion_rate  |-> CASE i = 1 -> Some(60) [] i = 4 -> None
                             [] OTHER -> Some(30) ]                \* latest.completion.completion_rate_4yr_150nt

\* a document of 'academics_programs': academics.program_percentage per major
AcademicsDoc(i, y) ==
    [ school_id |-> i, year |-> y,
      program_percentage |->
          [m \in Majors |->
              IF m = "computer" THEN Some(10 * i)
              ELSE IF i = 2 THEN Some(3) ELSE None] ]

\* a document of 'costs_aid_completion'
CostsDoc(i, y) ==
    [ school_id |-> i, year |-> y,
      avg_net_price |-> IF i = 1 THEN Some(12) ELSE None,          \* cost.avg_net_price.overall
      tuition_in_state |-> IF i = 2 THEN Some(41) ELSE None,       \* cost.tuition.in_state
      earnings_10yr |-> IF i = 2 THEN None ELSE Some(40 + i),      \* earnings.10_yrs_after_entry.median
      completion_rate_4yr |-> IF i = 1 THEN Some(61) ELSE None ]   \* completion.completion_rate_4yr_150nt

\* a document of 'admissions_student'
AdmissionsDoc(i, y) == [ school_id |-> i, year |-> y, admission_rate |-> Some(10 * i) ]

\* a document of 'programs_field_of_study': the per-program entries
FieldOfStudyDoc(i, y) ==
    [ school_id |-> i, year |-> y,
      programs |-> IF i % 2 = 1
                   THEN << [cip_code |-> "1102", earnings |-> Some(50 + i)],
                           [cip_code |-> "5201", earnings |-> None] >>
                   ELSE << [cip_code |-> "5201", earnings |-> Some(40 + i)] >> ]

\* ascending sequence of a finite set of integers (natural order of the import)
RECURSIVE SortedSeq(_)
SortedSeq(S) ==
    IF S = {} THEN <<>>
    ELSE LET m == CHOOSE x \in S : \A y \in S : x <= y
         IN  <<m>> \o SortedSeq(S \ {m})

----------------------------------------------------------------------------
(* models.py: SchoolModel *)

SORT_FIELD_MAP ==
    [ size |-> "latest.student.size",
      name |-> "school.name",
      cost |-> "latest.cost.tuition.in_state",
      earnings |-> "latest.earnings.10_yrs_after_entry.median",
      admission_rate |-> "latest.admissions.admission_rate.overall",
      completion_rate |-> "latest.completion.completion_rate_4yr_150nt" ]

\* the value of a document at a physical path, None when the path is missing
FieldAt(doc, path) ==
    CASE path = "latest.student.size" -> doc.size
      [] path = "school.name" -> Some(doc.name)
      [] path = "latest.cost.tuition.in_state" -> doc.tuition_in_state
      [] path = "latest.earnings.10_yrs_after_entry.median" -> doc.earnings
      [] path = "latest.admissions.admission_rate.overall" -> doc.admission_rate
      [] path = "latest.completion.completion_rate_4yr_150nt" -> doc.completion_rate

\* _normalize_school_doc: adds the quick properties under `latest`
NormalizeSchoolDoc(doc) ==
    [ school_id |-> doc.school_id, name |-> doc.name, state |-> doc.state,
      ownership |-> doc.ownership, degree_level |-> doc.degree_level,
      size |-> doc.size, tuition_in_state |-> doc.tuition_in_state,
      avg_net_price |-> doc.avg_net_price, earnings |-> doc.earnings,
      admission_rate |-> doc.admission_rate, completion_rate |-> doc.completion_rate,
      latest_avg_net_price |-> IF Has(doc.avg_net_price) THEN doc.avg_net_price
                               ELSE doc.tuition_in_state,
      latest_admission_rate |-> doc.admission_rate,
      latest_size |-> doc.size,
      latest_tuition_in_state |-> doc.tuition_in_state,
      latest_completion_rate_4yr |-> doc.completion_rate ]

\* the filters dict with every key absent
NoFilters ==
    [ state |-> None, ownership |-> None, degree_level |-> None,
      cost_min |-> None, cost_max |-> None, earnings_min |-> None,
      admission_rate_max |-> None, completion_rate_min |-> None,
      size_min |-> None, size_max |-> None, school_ids |-> None,
      sort_by |-> None, sort_order |-> None, page |-> None, limit |-> None,
      major |-> None, major_threshold |-> None ]

InSeq(x, s) == \E k \in 1..Len(s) : s[k] = x

\* mutant of QueryMatches: the ownership predicate is left out
QueryMatchesNoOwnership(filters, doc) ==
    /\ TruthyStr(filters.state) => doc.state = The(filters.state)
    /\ TruthyInt(filters.degree_level) => doc.degree_level = The(filters.degree_level)
    /\ TruthySeq(filters.school_ids) => InSeq(doc.school_id, The(filters.school_ids))

\* the query dict SchoolModel.filter_schools builds, as a predicate on documents
QueryMatches(filters, doc) ==
    /\ TruthyStr(filters.state) => doc.state = The(filters.state)
    /\ TruthyInt(filters.ownership) => doc.ownership = The(filters.ownership)
    /\ TruthyInt(filters.degree_level) => doc.degree_level = The(filters.degree_level)
    /\ TruthySeq(filters.school_ids) => InSeq(doc.school_id, The(filters.school_ids))

\* sort_field and sort_order from the filters
SortField(filters) ==
    LET sort_key == IF Has(filters.sort_by) THEN The(filters.sort_by) ELSE "size"
    IN  IF sort_key \in DOMAIN SORT_FIELD_MAP THEN SORT_FIELD_MAP[sort_key]
        ELSE "latest.student.size"

\* mutant of SortOrder: the requested order is not read
SortOrderAlwaysDescending(filters) == -1

SortOrder(filters) == IF filters.sort_order = Some("asc") THEN 1 ELSE -1

\* Mongo sort key: a missing field sorts as null, below every number
SortRank(doc, path) == IF Has(FieldAt(doc, path)) THEN The(FieldAt(doc, path)) ELSE -1

\* the orders in which a cursor sorted on `path` may return the collection:
\* sorted on the key, documents with equal keys in any order
SortedOrders(coll, path, order) ==
    { s \in [1..Cardinality(coll) -> coll] :
        /\ \A a, b \in 1..Cardinality(coll) : a # b => s[a] # s[b]
        /\ \A a, b \in 1..Cardinality(coll) :
              a < b => order * SortRank(s[a], path) <= order * SortRank(s[b], path) }

\* cursor.skip(skip).limit(limit) over the sorted matches; limit 0 is no limit
SkipLimit(seq, skip, limit) ==
    IF limit = 0 THEN SubSeq(seq, skip + 1, Len(seq))
    ELSE SubSeq(seq, skip + 1, Min(Len(seq), skip + limit))

\* [SchoolModel._normalize_school_doc(r) for r in results]
NormalizeAll(seq) == [k \in 1..Len(seq) |-> NormalizeSchoolDoc(seq[k])]

----------------------------------------------------------------------------
(* Handler outcomes: the response and the data-store calls issued *)

Outcome(r, c) == [resp |-> r, calls |-> c]

\* except Exception as e: return jsonify({'error': str(e)}), 500
Error500(exc, c) == Outcome([status |-> 500, error |-> exc], c)

ErrorResp(code, msg, c) == Outcome([status |-> code, error |-> msg], c)

\* the data-store call appended to c is the one that raises
Raises(failAt, c) == failAt = Len(c)

----------------------------------------------------------------------------
(* models.py: SchoolModel.filter_schools and find_schools_with_major *)

\* SchoolModel.filter_schools(filters, skip, limit); `order` is the order in
\* which the sorted cursor returns the collection
ModelFilterSchools(coll, filters, skip, limit, order, c0, failAt) ==
    LET c1 == Append(c0, "schools.count_documents")
        c2 == Append(c1, "schools.find")
        total_count == Cardinality({d \in coll : QueryMatches(filters, d)})
        matched == SelectSeq(order, LAMBDA d : QueryMatches(filters, d))
    IN  IF Raises(failAt, c1) THEN Error500("PyMongoError", c1)
        ELSE IF skip < 0 THEN Error500("ValueError", c1)          \* cursor.skip(): skip must be >= 0
        ELSE IF Raises(failAt, c2) THEN Error500("PyMongoError", c2)
        ELSE IF limit = 0 THEN Error500("ZeroDivisionError", c2)  \* (skip // limit) + 1
        ELSE Outcome([ status  |-> 200,
                       results |-> NormalizeAll(SkipLimit(matched, skip, limit)),
                       total   |-> total_count,
                       page    |-> (skip \div limit) + 1,
                       limit   |-> limit,
                       message |-> None ], c2)

\* AcademicsProgramsModel.find_schools_with_major(major_field, threshold, year=2020):
\* the school ids of the matching records, in natural order
FindSchoolsWithMajor(coll, major_field, threshold) ==
    SortedSeq({ a.school_id : a \in
        { d \in coll :
            /\ d.year = 2020
            /\ major_field \in DOMAIN d.program_percentage
            /\ Has(d.program_percentage[major_field])
            /\ The(d.program_percentage[major_field]) >= threshold } })

----------------------------------------------------------------------------
(* routes_schools.py: filter_schools *)

MAX_LIMIT == 100
DEFAULT_LIMIT == 20
DEFAULT_MAJOR_THRESHOLD == 5     \* 0.05

\* mutant of Skip: the page number is taken as zero-based plus one too many
SkipNextPage(page, limit) == page * limit

\* skip = (page - 1) * limit
Skip(page, limit) == (page - 1) * limit

\* mutant of MajorShortCircuit: the empty id list falls through to the main query
MajorNoShortCircuit(school_ids) == FALSE

\* if not school_ids: return the empty page
MajorShortCircuit(school_ids) == school_ids = <<>>

\* filters built from the query parameters of a GET request
GetFilters(args) ==
    [ NoFilters EXCEPT
        !.state = IF TruthyStr(args.state) THEN args.state ELSE None,
        !.ownership = IF TruthySeq(args.ownership) THEN ParseInt(The(args.ownership)) ELSE None,
        !.sort_by = IF TruthyStr(args.sort_by) THEN args.sort_by ELSE None,
        !.sort_order = IF TruthyStr(args.sort_order) THEN args.sort_order ELSE None ]

\* the filters dict handed to the model, before the major lookup
RouteFilters(r) == IF r.method = "POST" THEN r.body ELSE GetFilters(r.args)

\* int(request.args.get('page', filters.get('page', 1)))
RoutePage(r) ==
    IF Has(r.args.page) THEN ParseInt(The(r.args.page))
    ELSE IF Has(RouteFilters(r).page) THEN RouteFilters(r).page ELSE Some(1)

\* min(int(request.args.get('limit', filters.get('limit', 20))), 100)
RouteLimit(r) ==
    LET raw == IF Has(r.args.limit) THEN ParseInt(The(r.args.limit))
               ELSE IF Has(RouteFilters(r).limit) THEN RouteFilters(r).limit
               ELSE Some(DEFAULT_LIMIT)
    IN  IF Has(raw) THEN Some(Min(The(raw), MAX_LIMIT)) ELSE None

\* request.args.get('major', filters.get('major'))
RouteMajor(r) == IF Has(r.args.major) THEN r.args.major ELSE RouteFilters(r).major

\* float(request.args.get('major_threshold', filters.get('major_threshold', 0.05)))
RouteMajorThreshold(r) ==
    IF Has(r.args.major_threshold) THEN ParseFloat(The(r.args.major_threshold))
    ELSE IF Has(RouteFilters(r).major_threshold) THEN RouteFilters(r).major_threshold
    ELSE Some(DEFAULT_MAJOR_THRESHOLD)

\* the filters the model is called with: school_ids overwritten by the major lookup
EffectiveFilters(r, acad) ==
    IF TruthyStr(RouteMajor(r)) /\ Has(RouteMajorThreshold(r))
    THEN [ RouteFilters(r) EXCEPT !.school_ids =
             Some(FindSchoolsWithMajor(acad, The(RouteMajor(r)), The(RouteMajorThreshold(r)))) ]
    ELSE RouteFilters(r)

\* the handler of /api/schools/filter
FilterSchoolsRoute(r, coll, acad, order) ==
    LET ownBad == r.method = "GET" /\ TruthySeq(r.args.ownership)
                     /\ ~Has(ParseInt(The(r.args.ownership)))
        c1 == <<"academics_programs.find">>
    IN  IF ownBad \/ ~Has(RoutePage(r)) \/ ~Has(RouteLimit(r))
        THEN Error500("ValueError", <<>>)
        ELSE LET page == The(RoutePage(r))
                 limit == The(RouteLimit(r))
                 skip == Skip(page, limit)
             IN  IF TruthyStr(RouteMajor(r))
                 THEN IF ~Has(RouteMajorThreshold(r)) THEN Error500("ValueError", <<>>)
                      ELSE IF Raises(r.failAt, c1) THEN Error500("PyMongoError", c1)
                      ELSE IF MajorShortCircuit(The(EffectiveFilters(r, acad).school_ids))
                      THEN Outcome([ status  |-> 200,
                                     results |-> <<>>,
                                     total   |-> 0,
                                     page    |-> page,
                                     limit   |-> limit,
                                     message |-> Some("No schools found") ], c1)
                      ELSE ModelFilterSchools(coll, EffectiveFilters(r, acad), skip, limit,
                                              order, c1, r.failAt)
                 ELSE ModelFilterSchools(coll, RouteFilters(r), skip, limit, order,
                                         <<>>, r.failAt)

----------------------------------------------------------------------------
(* models.py: the single-record lookups *)

\* find_one({'school_id': school_id}) on 'schools', normalized
FindById(coll, school_id) ==
    IF \E d \in coll : d.school_id = school_id
    THEN Some(NormalizeSchoolDoc(CHOOSE d \in coll : d.school_id = school_id))
    ELSE None

\* find_one({'school_id': school_id, 'year': year}) on a satellite collection
FindBySchoolAndYear(coll, school_id, year) ==
    IF \E d \in coll : d.school_id = school_id /\ d.year = year
    THEN Some(CHOOSE d \in coll : d.school_id = school_id /\ d.year = year)
    ELSE None

\* CostsAidCompletionModel.get_historical_data: the school's records, newest first
RECURSIVE NewestFirst(_)
NewestFirst(S) ==
    IF S = {} THEN <<>>
    ELSE LET m == CHOOSE x \in S : \A y \in S : x.year >= y.year
         IN  <<m>> \o NewestFirst(S \ {m})

GetHistoricalData(coll, school_id, years) ==
    LET all == NewestFirst({d \in coll : d.school_id = school_id})
    IN  SubSeq(all, 1, Min(Len(all), years))

\* the calls `new` issued after c; when one of them raises, the calls up to it
IssueCalls(c, new, failAt) ==
    IF failAt \in (Len(c) + 1)..(Len(c) + Len(new))
    THEN [failed |-> TRUE, calls |-> SubSeq(c \o new, 1, failAt)]
    ELSE [failed |-> FALSE, calls |-> c \o new]

----------------------------------------------------------------------------
(* routes_schools.py: _merge_costs_into_basic_info, compare_schools,       *)
(* get_school_details                                                      *)

\* mutant of MergeCostsIntoBasicInfo: the merge runs without a costs record too
MergeCostsUnguarded(basic_info, costs) ==
    IF ~Has(costs) THEN basic_info @@ [ latest_median_earnings_10yr |-> None ]
    ELSE LET co == The(costs)
         IN  [ basic_info EXCEPT
                 !.latest_avg_net_price =
                     IF TruthyInt(co.avg_net_price) THEN co.avg_net_price ELSE @,
                 !.latest_tuition_in_state =
                     IF Has(co.tuition_in_state) THEN co.tuition_in_state ELSE @,
                 !.latest_completion_rate_4yr =
                     IF Has(co.completion_rate_4yr) THEN co.completion_rate_4yr ELSE @ ]
             @@ [ latest_median_earnings_10yr |-> co.earnings_10yr ]

\* _merge_costs_into_basic_info(basic_info, costs) on the flattened records:
\* a key of the costs record is present exactly when its value is not None
MergeCostsIntoBasicInfo(basic_info, costs) ==
    IF ~Has(costs) THEN basic_info
    ELSE LET co == The(costs)
         IN  [ basic_info EXCEPT
                 !.latest_avg_net_price =
                     IF TruthyInt(co.avg_net_price) THEN co.avg_net_price ELSE @,
                 !.latest_tuition_in_state =
                     IF Has(co.tuition_in_state) THEN co.tuition_in_state ELSE @,
                 !.latest_completion_rate_4yr =
                     IF Has(co.completion_rate_4yr) THEN co.completion_rate_4yr ELSE @ ]
             @@ [ latest_median_earnings_10yr |-> co.earnings_10yr ]

MAX_COMPARE_SCHOOLS == 10
DEFAULT_YEAR == 2023

\* [int(id.strip()) for id in school_ids_str.split(',') if id.strip()]:
\* Some(list), or None when an int() raises
RECURSIVE ParseIdTokens(_)
ParseIdTokens(tokens) ==
    IF tokens = <<>> THEN Some(<<>>)
    ELSE LET rest == ParseIdTokens(Tail(tokens))
         IN  IF Strip(tokens[1]) = <<>> THEN rest
             ELSE IF ~Has(ParseInt(Strip(tokens[1]))) \/ ~Has(rest) THEN None
             ELSE Some(<<The(ParseInt(Strip(tokens[1])))>> \o The(rest))

\* the school_ids list of a comparison request
CompareIds(r) ==
    IF r.method = "POST"
    THEN IF Has(r.body.school_ids) THEN r.body.school_ids ELSE Some(<<>>)
    ELSE ParseIdTokens(SplitComma(IF Has(r.args.school_ids) THEN The(r.args.school_ids)
                                  ELSE <<>>, <<>>))

\* the year of a comparison request
CompareYear(r) ==
    IF r.method = "POST"
    THEN IF Has(r.body.year) THEN r.body.year ELSE Some(DEFAULT_YEAR)
    ELSE IF Has(r.args.year) THEN ParseInt(The(r.args.year)) ELSE Some(DEFAULT_YEAR)

\* mutant of TooManySchools: the limit is checked off by one
TooManySchoolsOffByOne(school_ids) == Len(school_ids) > MAX_COMPARE_SCHOOLS + 1

\* if len(school_ids) > 10
TooManySchools(school_ids) == Len(school_ids) > MAX_COMPARE_SCHOOLS

\* mutant of CompareLoop: the loop runs over the fetched documents, one entry
\* per institution in ascending school_id, instead of over the requested ids
CompareLoopOverFetched(ids, k, year, acc, c, failAt) ==
    LET found == SortedSeq({d.school_id : d \in {e \in schools : InSeq(e.school_id, ids)}})
    IN  Outcome([ status |-> 200,
                  schools |-> [ j \in 1..Len(found) |->
                      [ school_id |-> found[j],
                        basic_info |->
                            MergeCostsIntoBasicInfo(
                                The(FindById(schools, found[j])),
                                FindBySchoolAndYear(costs_aid_completion, found[j], year)),
                        programs |-> FindBySchoolAndYear(academics_programs, found[j], year),
                        costs_outcomes |->
                            FindBySchoolAndYear(costs_aid_completion, found[j], year) ] ],
                  year |-> year ], c)

\* the loop over the requested ids, from position k on
RECURSIVE CompareLoop(_, _, _, _, _, _)
CompareLoop(ids, k, year, acc, c, failAt) ==
    IF k > Len(ids) THEN Outcome([status |-> 200, schools |-> acc, year |-> year], c)
    ELSE LET school_info == FindById(schools, ids[k])
             io == IssueCalls(c, <<"academics_programs.find_one",
                                   "costs_aid_completion.find_one">>, failAt)
             programs == FindBySchoolAndYear(academics_programs, ids[k], year)
             costs_outcomes == FindBySchoolAndYear(costs_aid_completion, ids[k], year)
         IN  IF ~Has(school_info) THEN CompareLoop(ids, k + 1, year, acc, c, failAt)
             ELSE IF io.failed THEN Error500("PyMongoError", io.calls)
             ELSE CompareLoop(ids, k + 1, year,
                     Append(acc, [ school_id |-> ids[k],
                                   basic_info |-> MergeCostsIntoBasicInfo(The(school_info),
                                                                          costs_outcomes),
                                   programs |-> programs,
                                   costs_outcomes |-> costs_outcomes ]),
                     io.calls, failAt)

\* request.get_json() of a POST that carries no JSON body: it raises 415
\* UnsupportedMediaType, or on the Flask releases before 2.1 returns None, on
\* which data.get raises AttributeError
NoJsonExcs == {"UnsupportedMediaType", "AttributeError"}

\* data = request.get_json(); data.get(...) raises
NoJsonBody(r) == r.method = "POST" /\ ~r.json

\* the handler of /api/schools/compare; exc is what a missing JSON body raises
CompareSchoolsRoute(r, exc) ==
    LET io == IssueCalls(<<>>, <<"schools.find">>, r.failAt)
    IN  IF NoJsonBody(r) THEN Error500(exc, <<>>)
        ELSE IF ~Has(CompareIds(r)) \/ ~Has(CompareYear(r)) THEN Error500("ValueError", <<>>)
        ELSE IF The(CompareIds(r)) = <<>> THEN ErrorResp(400, "School IDs required", <<>>)
        ELSE IF TooManySchools(The(CompareIds(r)))
             THEN ErrorResp(400, "Maximum 10 schools can be compared at once", <<>>)
        ELSE IF io.failed THEN Error500("PyMongoError", io.calls)
        ELSE CompareLoop(The(CompareIds(r)), 1, The(CompareYear(r)), <<>>, io.calls, r.failAt)

\* str.lower() on the texts a client sends for include_history
Lower(s) == CASE s = "True" -> "true" [] s = "TRUE" -> "true" [] s = "False" -> "false"
              [] OTHER -> s

\* mutant of SchoolMissing: a missing school is served like an existing one
SchoolMissingIgnored(school) == FALSE

\* if not school
SchoolMissing(school) == ~Has(school)

\* the handler of /api/schools/<int:school_id>
SchoolDetailsRoute(r) ==
    LET year == IF Has(r.args.year) THEN ParseInt(The(r.args.year)) ELSE Some(DEFAULT_YEAR)
        include_history ==
            Lower(IF Has(r.args.include_history) THEN The(r.args.include_history)
                  ELSE "false") = "true"
        io1 == IssueCalls(<<>>, <<"schools.find_one">>, r.failAt)
        school == FindById(schools, r.school_id)
        io2 == IssueCalls(io1.calls, <<"academics_programs.find_one",
                                       "costs_aid_completion.find_one",
                                       "admissions_student.find_one",
                                       "programs_field_of_study.find_one">>, r.failAt)
        io3 == IssueCalls(io2.calls, <<"costs_aid_completion.find">>, r.failAt)
        costs_outcomes == FindBySchoolAndYear(costs_aid_completion, r.school_id, The(year))
        result ==
            [ status |-> 200,
              school_id |-> r.school_id,
              basic_info |-> IF Has(school)
                             THEN Some(MergeCostsIntoBasicInfo(The(school), costs_outcomes))
                             ELSE None,
              programs |-> FindBySchoolAndYear(academics_programs, r.school_id, The(year)),
              costs_outcomes |-> costs_outcomes,
              admissions |-> FindBySchoolAndYear(admissions_student, r.school_id, The(year)),
              field_of_study |-> FindBySchoolAndYear(programs_field_of_study, r.school_id,
                                                     The(year)),
              year |-> The(year),
              historical_data |->
                  IF include_history
                  THEN Some(GetHistoricalData(costs_aid_completion, r.school_id, 10))
                  ELSE None ]
    IN  IF ~Has(year) THEN Error500("ValueError", <<>>)
        ELSE IF io1.failed THEN Error500("PyMongoError", io1.calls)
        ELSE IF SchoolMissing(school) THEN ErrorResp(404, "School not found", io1.calls)
        ELSE IF io2.failed THEN Error500("PyMongoError", io2.calls)
        ELSE IF include_history /\ io3.failed THEN Error500("PyMongoError", io3.calls)
        ELSE Outcome(result, IF include_history THEN io3.calls ELSE io2.calls)

----------------------------------------------------------------------------
(* routes_programs.py: compare_programs *)

MAX_COMPARE_PROGRAMS == 20
DEFAULT_PROGRAM_YEAR == 2024

\* ProgramsFieldOfStudyModel.compare_programs_across_schools: $match on the ids
\* and the year, $unwind programs, $match on the cip code, $project
RECURSIVE CompareProgramsAcrossSchools(_, _, _, _)
CompareProgramsAcrossSchools(coll, cip_code, idseq, year) ==
    IF idseq = <<>> THEN <<>>
    ELSE LET d == FindBySchoolAndYear(coll, idseq[1], year)
             mine == IF Has(d)
                     THEN SelectSeq(The(d).programs, LAMBDA p : p.cip_code = cip_code)
                     ELSE <<>>
         IN  [k \in 1..Len(mine) |->
                 [school_id |-> idseq[1], year |-> year, program |-> mine[k]]]
             \o CompareProgramsAcrossSchools(coll, cip_code, Tail(idseq), year)

\* if len(school_ids) > 20
TooManyPrograms(school_ids) == Len(school_ids) > MAX_COMPARE_PROGRAMS

\* the handler of /api/programs/compare; exc is what a missing JSON body raises
CompareProgramsRoute(r, exc) ==
    LET cip_code == r.body.cip_code
        school_ids == IF Has(r.body.school_ids) THEN The(r.body.school_ids) ELSE <<>>
        year == IF Has(r.body.year) THEN The(r.body.year) ELSE DEFAULT_PROGRAM_YEAR
        io == IssueCalls(<<>>, <<"programs_field_of_study.aggregate">>, r.failAt)
        matching == SortedSeq({ school_ids[k] : k \in 1..Len(school_ids) })
    IN  IF NoJsonBody(r) THEN Error500(exc, <<>>)
        ELSE IF ~TruthyStr(cip_code) \/ school_ids = <<>>
        THEN ErrorResp(400, "CIP code and school IDs required", <<>>)
        ELSE IF TooManyPrograms(school_ids)
             THEN ErrorResp(400, "Maximum 20 schools can be compared", <<>>)
        ELSE IF io.failed THEN Error500("PyMongoError", io.calls)
        ELSE Outcome([ status |-> 200,
                       cip_code |-> The(cip_code),
                       comparison |-> CompareProgramsAcrossSchools(programs_field_of_study,
                                          The(cip_code), matching, year),
                       year |-> year ], io.calls)

----------------------------------------------------------------------------
(* ROI arithmetic.  A quotient is kept exact as a fraction n/d, d # 0.     *)

Frac(n, d) == IF d < 0 THEN [n |-> 0 - n, d |-> 0 - d] ELSE [n |-> n, d |-> d]
FracEq(a, b) == a.n * b.d = b.n * a.d
FracNegative(a) == a.n < 0

Pow10(p) == IF p = 0 THEN 1 ELSE IF p = 1 THEN 10 ELSE 100

\* Mongo $round to p places: half to even
RoundFrac(a, p) ==
    LET scaled == a.n * Pow10(p)
        q == scaled \div a.d
        rem == scaled - q * a.d
    IN  Frac(IF 2 * rem > a.d THEN q + 1
             ELSE IF 2 * rem = a.d THEN (IF q % 2 = 0 THEN q ELSE q + 1)
             ELSE q, Pow10(p))

RoundOpt(o, p) == IF Has(o) THEN Some(RoundFrac(The(o), p)) ELSE None

\* {'$gt': [x, 0]} in an aggregation expression: null compares below every number
ExprGtZero(x) == Has(x) /\ The(x) > 0

\* routes_aggregations.calculate_roi: the $cond guard of roi_10yr and payback_years
RankingGuard(cost, earnings) == ExprGtZero(earnings) /\ ExprGtZero(cost)

\* roi_10yr of the $project stage
RankingRoi(cost, earnings) ==
    IF RankingGuard(cost, earnings)
    THEN Some(Frac(The(earnings) * 10 - The(cost) * 4, The(cost) * 4))
    ELSE None

\* payback_years of the $project stage
RankingPayback(cost, earnings) ==
    IF RankingGuard(cost, earnings)
    THEN Some(Frac(The(cost) * 4, The(earnings)))
    ELSE None

\* the $match stage after the projection keeps the record
RankingKeeps(cost, earnings) ==
    /\ Has(cost) /\ The(cost) > 0
    /\ Has(earnings) /\ The(earnings) > 0
    /\ Has(RankingRoi(cost, earnings))

\* routes_analytics.get_state_analytics, facet top_schools_by_value: the $match
StateValueMatches(cost, earnings) ==
    /\ Has(earnings) /\ The(earnings) > 0
    /\ ExprGtZero(cost)

\* roi of the top_schools_by_value projection, for a record the $match lets through
StateValueRoi(cost, earnings) ==
    IF StateValueMatches(cost, earnings)
    THEN Some(Frac(The(earnings) * 10 - The(cost) * 4, The(cost) * 4))
    ELSE None

\* routes_analytics.get_school_analytics: if school_cost and school_metrics['earnings_10yr']
SchoolMetricsComputed(cost, earnings) == TruthyInt(cost) /\ TruthyInt(earnings)

\* school_metrics['roi']
SchoolMetricsRoi(cost, earnings) ==
    IF SchoolMetricsComputed(cost, earnings) /\ The(cost) * 4 > 0
    THEN Some(Frac(The(earnings) * 10 - The(cost) * 4, The(cost) * 4))
    ELSE None

\* school_metrics['payback_years']
SchoolMetricsPayback(cost, earnings) ==
    IF SchoolMetricsComputed(cost, earnings) /\ The(earnings) > 0
    THEN Some(Frac(The(cost) * 4, The(earnings)))
    ELSE None

----------------------------------------------------------------------------
(* models.py: CostsAidCompletionModel.get_state_aggregations;              *)
(* routes_aggregations.py: get_state_aggregations                          *)

\* the states of the data set, in the order of {'$sort': {'_id': 1}}
StatesSorted == <<"CA", "NY", "TX">>

\* $match year 2020, $lookup on 'schools' by school_id, $unwind '$school_info':
\* the pairs <<costs record, school>> of the join
JoinedWithSchool(costs, coll) ==
    { p \in costs \X coll : p[1].year = 2020 /\ p[2].school_id = p[1].school_id }

\* the sum of a field over joined pairs that all carry it
RECURSIVE SumField(_, _)
SumField(S, field) ==
    IF S = {} THEN 0
    ELSE LET p == CHOOSE x \in S : TRUE
         IN  The(p[1][field]) + SumField(S \ {p}, field)

\* {'$avg': '$field'} over a group: null values are skipped, null when none is left
AvgField(group, field) ==
    LET vals == {p \in group : Has(p[1][field])}
    IN  IF vals = {} THEN None
        ELSE Some(Frac(SumField(vals, field), Cardinality(vals)))

\* the joined pairs of one state: the input of that state's $group
StateGroup(costs, coll, st) == {p \in JoinedWithSchool(costs, coll) : p[2].state = st}

\* the document $group emits for a non-empty group
StateGroupDoc(group, st) ==
    [ _id                 |-> st,
      avg_cost            |-> AvgField(group, "avg_net_price"),
      avg_earnings_10yr   |-> AvgField(group, "earnings_10yr"),
      avg_completion_rate |-> AvgField(group, "completion_rate_4yr"),
      school_count        |-> Cardinality(group) ]

\* $group emits one document per group key that occurs in its input
RECURSIVE GroupDocs(_, _, _)
GroupDocs(costs, coll, states) ==
    IF states = <<>> THEN <<>>
    ELSE (IF StateGroup(costs, coll, states[1]) = {} THEN <<>>
          ELSE <<StateGroupDoc(StateGroup(costs, coll, states[1]), states[1])>>)
         \o GroupDocs(costs, coll, Tail(states))

\* CostsAidCompletionModel.get_state_aggregations(state)
GetStateAggregations(costs, coll, state) ==
    IF TruthyStr(state) THEN GroupDocs(costs, coll, <<The(state)>>)
    ELSE GroupDocs(costs, coll, StatesSorted)

\* the handler of /api/aggregations/state
StateAggregationsRoute(r) ==
    LET io == IssueCalls(<<>>, <<"costs_aid_completion.aggregate">>, r.failAt)
    IN  IF io.failed THEN Error500("PyMongoError", io.calls)
        ELSE Outcome([ status |-> 200,
                       state |-> IF TruthyStr(r.args.state) THEN The(r.args.state) ELSE "all",
                       aggregations |-> GetStateAggregations(costs_aid_completion, schools,
                                                             r.args.state) ], io.calls)

----------------------------------------------------------------------------
(* routes_aggregations.py: get_completion_rates *)

DEFAULT_GROUP_BY == "state"

\* group_field_map: the school field a group_by value is mapped to
group_field_map == {"state", "ownership", "degree_level"}

\* the value of group_field_map[group_by] in a joined school document
GroupKey(d, group_by) ==
    CASE group_by = "state" -> d.state
      [] group_by = "ownership" -> d.ownership
      [] group_by = "degree_level" -> d.degree_level

\* $match year, $lookup, $unwind, $match completion rate not null
CompletionJoined(costs, coll, year) ==
    { p \in costs \X coll :
        /\ p[1].year = year
        /\ p[2].school_id = p[1].school_id
        /\ Has(p[1].completion_rate_4yr) }

\* the group keys in the order of {'$sort': {'_id': 1}}
CompletionKeys(joined, group_by) ==
    IF group_by = "state"
    THEN SelectSeq(StatesSorted, LAMBDA st : \E p \in joined : p[2].state = st)
    ELSE SortedSeq({GroupKey(p[2], group_by) : p \in joined})

\* the completion rates of a group
CompletionValues(group) == {The(p[1].completion_rate_4yr) : p \in group}

\* $percentile p = 0.5 over a group small enough for the digest to be exact:
\* the smallest value with at least half of the group at or below it
MedianOf(group) ==
    CHOOSE v \in CompletionValues(group) :
        /\ 2 * Cardinality({p \in group : The(p[1].completion_rate_4yr) <= v})
              >= Cardinality(group)
        /\ \A w \in CompletionValues(group) :
              2 * Cardinality({p \in group : The(p[1].completion_rate_4yr) <= w})
                  >= Cardinality(group) => v <= w

\* the document $group emits for one key
CompletionGroupDoc(group, key) ==
    [ _id                   |-> key,
      avg_completion_4yr    |-> AvgField(group, "completion_rate_4yr"),
      median_completion_4yr |-> MedianOf(group),
      min_completion        |-> CHOOSE v \in CompletionValues(group) :
                                    \A w \in CompletionValues(group) : v <= w,
      max_completion        |-> CHOOSE v \in CompletionValues(group) :
                                    \A w \in CompletionValues(group) : v >= w,
      school_count          |-> Cardinality(group) ]

CompletionDocs(joined, group_by) ==
    LET keys == CompletionKeys(joined, group_by)
    IN  [ k \in 1..Len(keys) |->
            CompletionGroupDoc({p \in joined : GroupKey(p[2], group_by) = keys[k]}, keys[k]) ]

\* the handler of /api/aggregations/completion-rates
CompletionRatesRoute(r) ==
    LET group_by == IF Has(r.args.group_by) THEN The(r.args.group_by) ELSE DEFAULT_GROUP_BY
        year == IF Has(r.args.year) THEN ParseInt(The(r.args.year)) ELSE Some(DEFAULT_YEAR)
        io == IssueCalls(<<>>, <<"costs_aid_completion.aggregate">>, r.failAt)
    IN  IF ~Has(year) THEN Error500("ValueError", <<>>)
        ELSE IF group_by \notin group_field_map
             THEN ErrorResp(400, "Invalid group_by parameter", <<>>)
        ELSE IF io.failed THEN Error500("PyMongoError", io.calls)
        ELSE Outcome([ status |-> 200,
                       data |-> CompletionDocs(CompletionJoined(costs_aid_completion, schools,
                                                                The(year)), group_by),
                       group_by |-> group_by,
                       year |-> The(year) ], io.calls)

----------------------------------------------------------------------------
(* routes_aggregations.py: get_earnings_distribution.  Amounts are in      *)
(* thousands of dollars.                                                   *)

\* 'boundaries' of the $bucket stage
EARNINGS_BOUNDARIES == <<0, 30, 40, 50, 60, 70, 80, 100, 150, 200, 500>>

\* the _id of a bucket: its lower boundary, or the 'default' of the stage
BoundBucket(b) == [bound |-> b]
OtherBucket == [default |-> "other"]

\* {'$match': {'earnings.10_yrs_after_entry.median': {'$ne': None, '$gt': 0}}}
EarningsMatched(joined) ==
    {p \in joined : Has(p[1].earnings_10yr) /\ The(p[1].earnings_10yr) > 0}

\* $match year, $lookup schools, $unwind, $match state, and for a major the
\* $lookup of academics_programs with its $match on year and share >= 0.05
EarningsJoined(costs, coll, acad, year, state, major) ==
    { p \in costs \X coll :
        /\ p[1].year = year
        /\ p[2].school_id = p[1].school_id
        /\ TruthyStr(state) => p[2].state = The(state)
        /\ TruthyStr(major) =>
              \E a \in acad :
                  /\ a.school_id = p[1].school_id /\ a.year = year
                  /\ The(major) \in DOMAIN a.program_percentage
                  /\ Has(a.program_percentage[The(major)])
                  /\ The(a.program_percentage[The(major)]) >= DEFAULT_MAJOR_THRESHOLD }

\* the bucket $bucket puts a value in: [b_i, b_i+1), else the default
BucketOf(v) ==
    IF \E i \in 1..(Len(EARNINGS_BOUNDARIES) - 1) :
          EARNINGS_BOUNDARIES[i] <= v /\ v < EARNINGS_BOUNDARIES[i + 1]
    THEN BoundBucket(CHOOSE b \in {EARNINGS_BOUNDARIES[i] : i \in 1..(Len(EARNINGS_BOUNDARIES) - 1)} :
            /\ b <= v
            /\ \A i \in 1..(Len(EARNINGS_BOUNDARIES) - 1) :
                  (EARNINGS_BOUNDARIES[i] <= v /\ v < EARNINGS_BOUNDARIES[i + 1])
                  => b = EARNINGS_BOUNDARIES[i])
    ELSE OtherBucket

\* the documents of the $bucket stage: one per bucket that holds a record
EarningsBuckets(matched) ==
    { [ _id |-> b,
        count |-> Cardinality({p \in matched : BucketOf(The(p[1].earnings_10yr)) = b}) ] :
        b \in {BucketOf(The(p[1].earnings_10yr)) : p \in matched} }

\* the handler of /api/aggregations/earnings-distribution
EarningsDistributionRoute(r) ==
    LET year == IF Has(r.args.year) THEN ParseInt(The(r.args.year)) ELSE Some(DEFAULT_YEAR)
        io == IssueCalls(<<>>, <<"costs_aid_completion.aggregate">>, r.failAt)
    IN  IF ~Has(year) THEN Error500("ValueError", <<>>)
        ELSE IF io.failed THEN Error500("PyMongoError", io.calls)
        ELSE Outcome([ status |-> 200,
                       distribution |->
                           EarningsBuckets(EarningsMatched(
                               EarningsJoined(costs_aid_completion, schools,
                                              academics_programs, The(year),
                                              r.args.state, r.args.major))),
                       year |-> The(year),
                       filters |-> [major |-> r.args.major, state |-> r.args.state] ],
                     io.calls)

----------------------------------------------------------------------------
(* routes_schools.py: search_schools; models.py: SchoolModel.search_by_name *)

DEFAULT_SEARCH_LIMIT == 20

\* the words of school.name that the text index of 'schools' holds
NameWords(d) ==
    IF d.school_id % 2 = 1 THEN {"state", "college"} ELSE {"state", "university"}

\* the orders in which a cursor sorted on the text score may return the
\* collection: the score is not modelled, every order is possible
ScoreOrders(coll) ==
    { s \in [1..Cardinality(coll) -> coll] :
        \A a, b \in 1..Cardinality(coll) : a # b => s[a] # s[b] }

\* SchoolModel.search_by_name(query, limit)
SearchByName(query, limit, order) ==
    NormalizeAll(SkipLimit(SelectSeq(order, LAMBDA d : query \in NameWords(d)), 0, limit))

\* the handler of /api/schools/search
SearchSchoolsRoute(r, order) ==
    LET query == IF Has(r.args.q) THEN The(r.args.q) ELSE ""
        limit == IF Has(r.args.limit) THEN ParseInt(The(r.args.limit))
                 ELSE Some(DEFAULT_SEARCH_LIMIT)
        io == IssueCalls(<<>>, <<"schools.find">>, r.failAt)
    IN  IF ~Has(limit) THEN Error500("ValueError", <<>>)
        ELSE IF query = "" THEN ErrorResp(400, "Search query required", <<>>)
        ELSE IF io.failed THEN Error500("PyMongoError", io.calls)
        ELSE LET results == SearchByName(query, Min(The(limit), MAX_LIMIT), order)
             IN  Outcome([status |-> 200, results |-> results, count |-> Len(results)],
                         io.calls)

----------------------------------------------------------------------------
(* routes_programs.py: get_program_trends;                                 *)
(* models.py: ProgramsFieldOfStudyModel.get_program_trends                 *)

DEFAULT_START_YEAR == 2015
DEFAULT_END_YEAR == 2024

\* $match on the year range, $unwind '$programs', $match on the cip code: the
\* entries <<program, school_id, position>> of one year
TrendEntries(coll, cip_code, year) ==
    UNION { { <<d.programs[k], d.school_id, k>> :
                k \in {j \in 1..Len(d.programs) : d.programs[j].cip_code = cip_code} } :
            d \in {x \in coll : x.year = year} }

\* the $group document of one year; the program entries carry the 1-year
\* earnings only, so the other averages have no value to average
TrendDoc(entries, year) ==
    [ _id              |-> year,
      avg_1yr_earnings |-> AvgField(entries, "earnings"),
      avg_3yr_earnings |-> None,
      avg_5yr_earnings |-> None,
      avg_debt         |-> None,
      school_count     |-> Cardinality(entries) ]

\* ProgramsFieldOfStudyModel.get_program_trends(cip_code, start_year, end_year)
GetProgramTrends(coll, cip_code, start_year, end_year) ==
    LET years == SortedSeq({ d.year : d \in
                     { x \in coll : /\ x.year >= start_year /\ x.year <= end_year
                                    /\ TrendEntries(coll, cip_code, x.year) # {} } })
    IN  [ k \in 1..Len(years) |-> TrendDoc(TrendEntries(coll, cip_code, years[k]), years[k]) ]

\* the handler of /api/programs/trends
ProgramTrendsRoute(r) ==
    LET start_year == IF Has(r.args.start_year) THEN ParseInt(The(r.args.start_year))
                      ELSE Some(DEFAULT_START_YEAR)
        end_year == IF Has(r.args.end_year) THEN ParseInt(The(r.args.end_year))
                    ELSE Some(DEFAULT_END_YEAR)
        io == IssueCalls(<<>>, <<"programs_field_of_study.aggregate">>, r.failAt)
    IN  IF ~TruthyStr(r.args.cip_code) THEN ErrorResp(400, "CIP code required", <<>>)
        ELSE IF ~Has(start_year) \/ ~Has(end_year) THEN Error500("ValueError", <<>>)
        ELSE IF io.failed THEN Error500("PyMongoError", io.calls)
        ELSE Outcome([ status |-> 200,
                       cip_code |-> The(r.args.cip_code),
                       trends |-> GetProgramTrends(programs_field_of_study,
                                      The(r.args.cip_code), The(start_year), The(end_year)),
                       years |-> <<The(start_year), The(end_year)>> ], io.calls)

----------------------------------------------------------------------------
(* The handlers that build their pipeline around                           *)
(* CostsAidCompletionModel.get_cost_field_expr()                           *)

\* the attributes class CostsAidCompletionModel defines
CostsAidCompletionModelAttrs ==
    { "get_collection", "find_by_school_and_year", "get_historical_data",
      "get_state_aggregations" }

\* CostsAidCompletionModel.<name>: None when the attribute lookup raises
\* AttributeError
ClassAttr(name) == IF name \in CostsAidCompletionModelAttrs THEN Some(name) ELSE None

\* cost_expr = CostsAidCompletionModel.get_cost_field_expr(), then the pipeline
\* built around it and its aggregate call
CostExprPipeline(call, failAt) ==
    LET io == IssueCalls(<<>>, <<call>>, failAt)
    IN  IF ~Has(ClassAttr("get_cost_field_expr")) THEN Error500("AttributeError", <<>>)
        ELSE IF io.failed THEN Error500("PyMongoError", io.calls)
        ELSE Outcome([status |-> 200], io.calls)

\* int(request.args.get('year', 2023))
YearArg(r) == IF Has(r.args.year) THEN ParseInt(The(r.args.year)) ELSE Some(DEFAULT_YEAR)

\* the handler of /api/aggregations/roi
CalculateRoiRoute(r) ==
    IF ~Has(YearArg(r)) THEN Error500("ValueError", <<>>)
    ELSE IF TruthySeq(r.args.ownership) /\ ~Has(ParseInt(The(r.args.ownership)))
         THEN Error500("ValueError", <<>>)
    ELSE CostExprPipeline("costs_aid_completion.aggregate", r.failAt)

\* the handler of /api/aggregations/cost-vs-earnings
CostVsEarningsRoute(r) ==
    LET limit == IF Has(r.args.limit) THEN ParseInt(The(r.args.limit)) ELSE Some(200)
    IN  IF ~Has(YearArg(r)) \/ ~Has(limit) THEN Error500("ValueError", <<>>)
        ELSE CostExprPipeline("costs_aid_completion.aggregate", r.failAt)

\* the handler of /api/aggregations/summary-stats
SummaryStatsRoute(r) ==
    IF ~Has(YearArg(r)) THEN Error500("ValueError", <<>>)
    ELSE CostExprPipeline("costs_aid_completion.aggregate", r.failAt)

\* the handler of /api/analytics/state/<state_code>
StateAnalyticsRoute(r) ==
    IF ~Has(YearArg(r)) THEN Error500("ValueError", <<>>)
    ELSE CostExprPipeline("costs_aid_completion.aggregate", r.failAt)

\* the handler of /api/analytics/state-comparison
StateComparisonRoute(r) ==
    IF ~Has(YearArg(r)) THEN Error500("ValueError", <<>>)
    ELSE CostExprPipeline("costs_aid_completion.aggregate", r.failAt)

\* the handler of /api/analytics/school/<int:school_id>
SchoolAnalyticsRoute(r) ==
    IF ~Has(YearArg(r)) THEN Error500("ValueError", <<>>)
    ELSE CostExprPipeline("costs_aid_completion.find_one", r.failAt)

----------------------------------------------------------------------------
(* The requests the clients send *)

NoRequest == [endpoint |-> "none"]
NoResponse == [status |-> 0]
NoRoi == [endpoint |-> "none"]
NoDoc == [stage |-> "none"]

\* the module database.py before `db_instance = Database()` has run
NoDatabase ==
    [ _instance |-> FALSE, _client |-> None, _db |-> None, clients |-> <<>>,
      outcome |-> [call |-> "none", raised |-> "", handle |-> None] ]

FailAts == 0..MaxFailAt          \* 0: no data-store call raises

\* the (sort_by, sort_order) pairs of the requests
SortChoices ==
    { <<None, None>>, <<Some("name"), Some("asc")>>, <<Some("cost"), None>>,
      <<Some("bogus"), Some("desc")>>, <<None, Some("up")>> }

NoArgs ==
    [ state |-> None, ownership |-> None, sort_by |-> None, sort_order |-> None,
      page |-> None, limit |-> None, major |-> None, major_threshold |-> None,
      cost_max |-> None ]

\* GET /api/schools/filter?...
FilterGetRequests(sc) ==
    { [ endpoint |-> "filter", method |-> "GET", body |-> NoFilters, failAt |-> 0,
        args |-> [ NoArgs EXCEPT !.state = st, !.ownership = ow, !.sort_by = sc[1],
                                 !.sort_order = sc[2], !.page = pg, !.limit = lm,
                                 !.major = mj, !.major_threshold = th, !.cost_max = cm ] ] :
        st \in Opt({"CA"}),
        ow \in Opt({<<"1">>, <<"0">>, <<"x">>}),
        pg \in Opt({<<"2">>, <<"3">>}),
        lm \in Opt({<<"1">>, <<"2">>, <<"1", "0", "1">>}),
        mj \in Opt({"computer", "history"}),
        th \in Opt({<<"0", ".", "9">>}),
        cm \in Opt({<<"2", "0">>}) }
    \cup
    { [ endpoint |-> "filter", method |-> "GET", body |-> NoFilters, failAt |-> f,
        args |-> [ NoArgs EXCEPT !.sort_by = sc[1], !.sort_order = sc[2], !.major = mj,
                                 !.major_threshold = th ] ] :
        mj \in Opt({"computer", "history"}),
        th \in Opt({<<"h", "i", "g", "h">>}),
        f \in FailAts }

\* the criteria SchoolModel.filter_schools does not read, one at a time
UnreadCriteria ==
    { NoFilters,
      [NoFilters EXCEPT !.cost_min = Some(20)],
      [NoFilters EXCEPT !.cost_max = Some(20)],
      [NoFilters EXCEPT !.earnings_min = Some(30)],
      [NoFilters EXCEPT !.admission_rate_max = Some(50)],
      [NoFilters EXCEPT !.completion_rate_min = Some(50)],
      [NoFilters EXCEPT !.size_min = Some(200)],
      [NoFilters EXCEPT !.size_max = Some(200)] }

\* POST /api/schools/filter with a JSON body
FilterPostRequests(sc) ==
    { [ endpoint |-> "filter", method |-> "POST", args |-> NoArgs, failAt |-> 0,
        body |-> [ u EXCEPT !.state = st, !.ownership = ow, !.degree_level = dl,
                            !.sort_by = sc[1], !.sort_order = sc[2], !.limit = lm ] ] :
        u \in UnreadCriteria,
        st \in Opt({"CA"}),
        ow \in Opt({1, 0}),
        dl \in Opt({3}),
        lm \in Opt({1}) }
    \cup
    { [ endpoint |-> "filter", method |-> "POST", args |-> NoArgs, failAt |-> f,
        body |-> [ NoFilters EXCEPT !.state = st, !.ownership = ow, !.school_ids = ids,
                            !.sort_by = sc[1], !.sort_order = sc[2],
                            !.page = pg, !.limit = lm, !.major = mj ] ] :
        st \in Opt({"CA"}),
        ow \in Opt({1}),
        ids \in Opt({<<>>, <<1, 3>>}),
        pg \in Opt({0, 2}),
        lm \in Opt({0, 1}),
        mj \in Opt({"computer", "history"}),
        f \in {0, MaxFailAt} }

\* an id list of length n over existing and missing ids
CycleIds(n) == [k \in 1..n |-> ((k - 1) % (MaxSchools + 1)) + 1]

IdText(i) == << <<"0", "1", "2", "3", "4", "5", "6", "7", "8", "9">>[i + 1] >>

\* ",".join(ids) for one-digit ids
RECURSIVE JoinComma(_)
JoinComma(ids) ==
    IF ids = <<>> THEN <<>>
    ELSE IF Len(ids) = 1 THEN IdText(ids[1])
    ELSE IdText(ids[1]) \o <<",">> \o JoinComma(Tail(ids))

IdLists(max) ==
    { <<>>, <<1>>, <<2, 1>>, <<MaxSchools + 1>>, <<3, 3>>, CycleIds(max), CycleIds(max + 1) }

CompareRequests ==
    { [ endpoint |-> "compare", method |-> "GET", failAt |-> f, json |-> FALSE,
        body |-> [school_ids |-> None, year |-> None],
        args |-> [school_ids |-> ids, year |-> yr] ] :
        ids \in {None, Some(<<"1", ",", " ", "2", ",">>), Some(<<"1", ",", "x">>)}
                  \cup { Some(JoinComma(l)) : l \in IdLists(MAX_COMPARE_SCHOOLS) },
        yr \in Opt({<<"2", "0", "2", "0">>, <<"x">>}),
        f \in FailAts }
    \cup
    { [ endpoint |-> "compare", method |-> "POST", failAt |-> f, json |-> TRUE,
        args |-> [school_ids |-> None, year |-> None],
        body |-> [school_ids |-> ids, year |-> yr] ] :
        ids \in Opt(IdLists(MAX_COMPARE_SCHOOLS)),
        yr \in Opt({2020}),
        f \in FailAts }
    \cup
    { [ endpoint |-> "compare", method |-> "POST", failAt |-> f, json |-> FALSE,
        args |-> [school_ids |-> None, year |-> None],
        body |-> [school_ids |-> None, year |-> None] ] :
        f \in {0, 1} }

CompareProgramsRequests ==
    { [ endpoint |-> "compare_programs", method |-> "POST", failAt |-> f, json |-> TRUE,
        body |-> [cip_code |-> cip, school_ids |-> ids, year |-> yr] ] :
        cip \in Opt({"1102", "5201"}),
        ids \in Opt(IdLists(MAX_COMPARE_PROGRAMS)),
        yr \in Opt({2020}),
        f \in FailAts }
    \cup
    { [ endpoint |-> "compare_programs", method |-> "POST", failAt |-> f, json |-> FALSE,
        body |-> [cip_code |-> None, school_ids |-> None, year |-> None] ] :
        f \in {0, 1} }

SchoolDetailsRequests ==
    { [ endpoint |-> "details", method |-> "GET", failAt |-> f, school_id |-> i,
        args |-> [year |-> yr, include_history |-> ih] ] :
        i \in 1..(MaxSchools + 1),
        yr \in Opt({<<"2", "0", "2", "0">>, <<"x">>}),
        ih \in Opt({"true", "True", "false"}),
        f \in FailAts }

StateAggregationsRequests ==
    { [ endpoint |-> "state_aggregations", method |-> "GET", failAt |-> f,
        args |-> [state |-> st] ] :
        st \in Opt({"CA", "NY", "TX", ""}),
        f \in {0, 1} }

CompletionRatesRequests ==
    { [ endpoint |-> "completion_rates", method |-> "GET", failAt |-> f,
        args |-> [group_by |-> gb, year |-> yr] ] :
        gb \in Opt({"state", "ownership", "degree_level", "bogus"}),
        yr \in Opt({<<"2", "0", "2", "0">>, <<"2", "0", "x">>}),
        f \in {0, 1} }

EarningsDistributionRequests ==
    { [ endpoint |-> "earnings_distribution", method |-> "GET", failAt |-> f,
        args |-> [year |-> yr, state |-> st, major |-> mj] ] :
        yr \in Opt({<<"2", "0", "2", "0">>, <<"2", "0", "x">>}),
        st \in Opt({"CA", "NY"}),
        mj \in Opt({"computer", "history"}),
        f \in {0, 1} }

SearchRequests ==
    { [ endpoint |-> "search", method |-> "GET", failAt |-> f,
        args |-> [q |-> q, limit |-> lm] ] :
        q \in Opt({"college", "state", "zebra", ""}),
        lm \in Opt({<<"1">>, <<"x">>}),
        f \in {0, 1} }

ProgramTrendsRequests ==
    { [ endpoint |-> "program_trends", method |-> "GET", failAt |-> f,
        args |-> [cip_code |-> cip, start_year |-> sy, end_year |-> ey] ] :
        cip \in Opt({"1102", "5201", ""}),
        sy \in Opt({<<"2", "0", "2", "1">>, <<"x">>}),
        ey \in Opt({<<"2", "0", "1", "9">>}),
        f \in {0, 1} }

YearTexts == Opt({<<"2", "0", "2", "0">>, <<"2", "0", "2", "x">>})

CalculateRoiRequests ==
    { [ endpoint |-> "roi", method |-> "GET", failAt |-> f,
        args |-> [state |-> st, ownership |-> ow, major |-> None, year |-> yr] ] :
        st \in Opt({"CA"}), ow \in Opt({<<"1">>, <<"x">>}), yr \in YearTexts, f \in {0, 1} }

CostVsEarningsRequests ==
    { [ endpoint |-> "cost_vs_earnings", method |-> "GET", failAt |-> f,
        args |-> [state |-> st, ownership |-> None, limit |-> lm, year |-> yr] ] :
        st \in Opt({"CA"}), lm \in Opt({<<"5">>, <<"x">>}), yr \in YearTexts, f \in {0, 1} }

\* the requests of the endpoints that read the year only
YearRequests(endpoint) ==
    { [ endpoint |-> endpoint, method |-> "GET", failAt |-> f, args |-> [year |-> yr] ] :
        yr \in YearTexts, f \in {0, 1} }

StateAnalyticsRequests ==
    { [ endpoint |-> "state_analytics", method |-> "GET", failAt |-> f, state_code |-> st,
        args |-> [year |-> yr] ] :
        st \in {"CA", "TX"}, yr \in YearTexts, f \in {0, 1} }

SchoolAnalyticsRequests ==
    { [ endpoint |-> "school_analytics", method |-> "GET", failAt |-> f, school_id |-> i,
        args |-> [year |-> yr, include_history |-> ih] ] :
        i \in {1, MaxSchools + 1}, yr \in YearTexts, ih \in Opt({"false"}), f \in {0, 1} }

----------------------------------------------------------------------------
(* The service: one action per handler *)

\* mutant of Respond: the normalized documents are written back to 'schools'
RespondWritingBack(r, out) ==
    /\ req' = r
    /\ resp' = out.resp
    /\ calls' = out.calls
    /\ pc' = "responded"
    /\ schools' = {NormalizeSchoolDoc(d) : d \in schools}
    /\ UNCHANGED <<academics_programs, costs_aid_completion, admissions_student,
                   programs_field_of_study, roi, fetched, db_instance>>

Respond(r, out) ==
    /\ req' = r
    /\ resp' = out.resp
    /\ calls' = out.calls
    /\ pc' = "responded"
    /\ UNCHANGED <<collections, roi, fetched, db_instance>>

\* /api/schools/filter
FilterSchools ==
    /\ pc = "idle"
    /\ \E sc \in SortChoices :
         \E order \in SortedOrders(schools,
                                   SortField([NoFilters EXCEPT !.sort_by = sc[1]]),
                                   SortOrder([NoFilters EXCEPT !.sort_order = sc[2]])) :
           \E r \in FilterGetRequests(sc) \cup FilterPostRequests(sc) :
              Respond(r, FilterSchoolsRoute(r, schools, academics_programs, order))

\* /api/schools/compare
CompareSchools ==
    /\ pc = "idle"
    /\ \E r \in CompareRequests, exc \in NoJsonExcs :
          Respond(r, CompareSchoolsRoute(r, exc))

\* /api/schools/<int:school_id>
GetSchoolDetails ==
    /\ pc = "idle"
    /\ \E r \in SchoolDetailsRequests : Respond(r, SchoolDetailsRoute(r))

\* /api/programs/compare
ComparePrograms ==
    /\ pc = "idle"
    /\ \E r \in CompareProgramsRequests, exc \in NoJsonExcs :
          Respond(r, CompareProgramsRoute(r, exc))

\* /api/schools/search
SearchSchools ==
    /\ pc = "idle"
    /\ \E order \in ScoreOrders(schools) :
          \E r \in SearchRequests : Respond(r, SearchSchoolsRoute(r, order))

\* /api/programs/trends
ProgramTrends ==
    /\ pc = "idle"
    /\ \E r \in ProgramTrendsRequests : Respond(r, ProgramTrendsRoute(r))

\* /api/aggregations/state
StateAggregations ==
    /\ pc = "idle"
    /\ \E r \in StateAggregationsRequests : Respond(r, StateAggregationsRoute(r))

\* /api/aggregations/completion-rates
CompletionRates ==
    /\ pc = "idle"
    /\ \E r \in CompletionRatesRequests : Respond(r, CompletionRatesRoute(r))

\* /api/aggregations/earnings-distribution
EarningsDistribution ==
    /\ pc = "idle"
    /\ \E r \in EarningsDistributionRequests : Respond(r, EarningsDistributionRoute(r))

\* /api/aggregations/roi
CalculateRoi ==
    /\ pc = "idle"
    /\ \E r \in CalculateRoiRequests : Respond(r, CalculateRoiRoute(r))

\* /api/aggregations/cost-vs-earnings
CostVsEarnings ==
    /\ pc = "idle"
    /\ \E r \in CostVsEarningsRequests : Respond(r, CostVsEarningsRoute(r))

\* /api/aggregations/summary-stats
SummaryStats ==
    /\ pc = "idle"
    /\ \E r \in YearRequests("summary_stats") : Respond(r, SummaryStatsRoute(r))

\* /api/analytics/state/<state_code>
StateAnalytics ==
    /\ pc = "idle"
    /\ \E r \in StateAnalyticsRequests : Respond(r, StateAnalyticsRoute(r))

\* /api/analytics/state-comparison
StateComparison ==
    /\ pc = "idle"
    /\ \E r \in YearRequests("state_comparison") : Respond(r, StateComparisonRoute(r))

\* /api/analytics/school/<int:school_id>
SchoolAnalytics ==
    /\ pc = "idle"
    /\ \E r \in SchoolAnalyticsRequests : Respond(r, SchoolAnalyticsRoute(r))

\* the response is sent and the request context is torn down
Finish ==
    /\ pc = "responded"
    /\ pc' = "idle"
    /\ req' = NoRequest
    /\ resp' = NoResponse
    /\ calls' = <<>>
    /\ UNCHANGED <<collections, roi, fetched, db_instance>>

SatelliteInit ==
    /\ academics_programs =
          {AcademicsDoc(i, 2020) : i \in 2..(MaxSchools + 1)} \cup {AcademicsDoc(1, 2023)}
    /\ costs_aid_completion =
          {CostsDoc(i, y) : i \in 1..(MaxSchools - 1), y \in Years}
    /\ admissions_student = {AdmissionsDoc(i, 2020) : i \in {1, 3}}
    /\ programs_field_of_study = {FieldOfStudyDoc(i, 2020) : i \in 1..MaxSchools}

\* the collections as the import left them; the service starts idle
Init ==
    /\ \E n \in 0..MaxSchools : schools = {SchoolDoc(i) : i \in 1..n}
    /\ SatelliteInit
    /\ pc = "idle"
    /\ req = NoRequest
    /\ resp = NoResponse
    /\ calls = <<>>
    /\ db_instance = NoDatabase
    /\ roi = NoRoi
    /\ fetched = NoDoc

Next ==
    \/ FilterSchools
    \/ CompareSchools
    \/ GetSchoolDetails
    \/ ComparePrograms
    \/ SearchSchools
    \/ ProgramTrends
    \/ StateAggregations
    \/ CompletionRates
    \/ EarningsDistribution
    \/ CalculateRoi
    \/ CostVsEarnings
    \/ SummaryStats
    \/ StateAnalytics
    \/ StateComparison
    \/ SchoolAnalytics
    \/ Finish

Spec == Init /\ [][Next]_vars

----------------------------------------------------------------------------
(* The ROI arithmetic on its own: every cost and earnings value of a record *)

Amounts == Opt((0 - 2)..MaxAmount)

RoiInput(c, e) ==
    [ endpoint |-> "input", cost |-> c, earnings |-> e,
      roi |-> None, payback |-> None, roi_out |-> None, payback_out |-> None,
      listed |-> FALSE ]

InitRoi ==
    /\ schools = {}
    /\ SatelliteInit
    /\ pc = "roi"
    /\ req = NoRequest
    /\ resp = NoResponse
    /\ calls = <<>>
    /\ db_instance = NoDatabase
    /\ \E c \in Amounts, e \in Amounts : roi = RoiInput(c, e)
    /\ fetched = NoDoc

\* /api/aggregations/roi: the record's projection, $match and final $round
RoiRanking ==
    /\ pc = "roi" /\ roi.endpoint = "input"
    /\ roi' = [ roi EXCEPT
                  !.endpoint = "ranking",
                  !.roi = RankingRoi(roi.cost, roi.earnings),
                  !.payback = RankingPayback(roi.cost, roi.earnings),
                  !.listed = RankingKeeps(roi.cost, roi.earnings),
                  !.roi_out = RoundOpt(RankingRoi(roi.cost, roi.earnings), 2),
                  !.payback_out = RoundOpt(RankingPayback(roi.cost, roi.earnings), 1) ]
    /\ UNCHANGED <<collections, pc, req, resp, calls, fetched, db_instance>>

\* /api/analytics/state/<state_code>: facet top_schools_by_value
RoiStateValue ==
    /\ pc = "roi" /\ roi.endpoint = "input"
    /\ roi' = [ roi EXCEPT
                  !.endpoint = "state_value",
                  !.roi = StateValueRoi(roi.cost, roi.earnings),
                  !.listed = StateValueMatches(roi.cost, roi.earnings),
                  !.roi_out = StateValueRoi(roi.cost, roi.earnings) ]
    /\ UNCHANGED <<collections, pc, req, resp, calls, fetched, db_instance>>

\* /api/analytics/school/<int:school_id>: school_metrics roi and payback_years
RoiSchoolMetrics ==
    /\ pc = "roi" /\ roi.endpoint = "input"
    /\ roi' = [ roi EXCEPT
                  !.endpoint = "school_metrics",
                  !.roi = SchoolMetricsRoi(roi.cost, roi.earnings),
                  !.payback = SchoolMetricsPayback(roi.cost, roi.earnings),
                  !.listed = TRUE,
                  !.roi_out = SchoolMetricsRoi(roi.cost, roi.earnings),
                  !.payback_out = SchoolMetricsPayback(roi.cost, roi.earnings) ]
    /\ UNCHANGED <<collections, pc, req, resp, calls, fetched, db_instance>>

NextRoi ==
    \/ RoiRanking
    \/ RoiStateValue
    \/ RoiSchoolMetrics

SpecRoi == InitRoi /\ [][NextRoi]_vars

----------------------------------------------------------------------------
(* Nested documents.  A value of a Mongo document is null, a number or an  *)
(* object; an object is a set of <<key, value>> pairs, a key that is not   *)
(* there is absent.  An expression that raises evaluates to Raise(exc),    *)
(* which every later step hands on.                                        *)

Null == [t |-> "null"]
Num(n) == [t |-> "num", v |-> n]
Obj(pairs) == [t |-> "obj", f |-> pairs]
EmptyObj == Obj({})
Raise(exc) == [t |-> "raise", exc |-> exc]

IsRaise(x) == x.t = "raise"
IsObj(x) == x.t = "obj"

\* k in x, for an object x
HasKey(x, k) == \E p \in x.f : p[1] = k

\* the value of key k of an object that has it
At(x, k) == (CHOOSE p \in x.f : p[1] = k)[2]

\* x[k] = v
Put(x, k, v) == Obj({p \in x.f : p[1] # k} \cup {<<k, v>>})

\* bool(x)
Truthy(x) ==
    CASE x.t = "null" -> FALSE
      [] x.t = "num" -> x.v # 0
      [] x.t = "obj" -> x.f # {}

\* x.get(k, default): AttributeError on None and on a number
PyGet(x, k, default) ==
    IF IsRaise(x) THEN x
    ELSE IF ~IsObj(x) THEN Raise("AttributeError")
    ELSE IF HasKey(x, k) THEN At(x, k)
    ELSE default

\* x or y
PyOr(x, y) == IF IsRaise(x) THEN x ELSE IF Truthy(x) THEN x ELSE y

\* l[k] = v when neither l nor v raised
PutChecked(l, k, v) ==
    IF IsRaise(l) THEN l ELSE IF IsRaise(v) THEN v ELSE Put(l, k, v)

\* x[k], for a key the caller has tested with `k in x`
PyItem(x, k) == IF IsRaise(x) THEN x ELSE At(x, k)

\* the test `k in x`: TypeError on None and on a number
InRaises(x) == ~IsRaise(x) /\ ~IsObj(x)

----------------------------------------------------------------------------
(* models.py: SchoolModel._normalize_school_doc on nested documents *)

\* avg_net_price: cost.avg_net_price.overall, then cost.tuition.in_state
NetPriceStep(l) ==
    IF IsRaise(l) THEN l
    ELSE IF ~IsObj(l) THEN Raise("TypeError")              \* 'cost' in latest
    ELSE IF ~HasKey(l, "cost") THEN l
    ELSE LET cost == PyGet(l, "cost", EmptyObj)
             a == PyGet(PyGet(cost, "avg_net_price", EmptyObj), "overall", Null)
             b == IF IsRaise(a) \/ a # Null THEN a
                  ELSE PyGet(PyGet(cost, "tuition", EmptyObj), "in_state", Null)
         IN  IF IsRaise(b) THEN b
             ELSE IF b # Null THEN Put(l, "avg_net_price", b)
             ELSE l

\* if latest.get('admissions') and latest['admissions'].get('admission_rate'):
\*     latest['admission_rate'] = latest['admissions']['admission_rate'].get('overall')
AdmissionStep(l) ==
    IF IsRaise(l) THEN l
    ELSE LET adm == PyGet(l, "admissions", Null)
             rate == IF Truthy(adm) THEN PyGet(adm, "admission_rate", Null) ELSE Null
         IN  IF IsRaise(rate) THEN rate
             ELSE IF ~Truthy(rate) THEN l
             ELSE PutChecked(l, "admission_rate", PyGet(rate, "overall", Null))

\* latest[target] = latest['admissions'][scores].get('average', {}).get('overall')
ScoreStep(l, scores, target) ==
    IF IsRaise(l) THEN l
    ELSE LET adm == PyGet(l, "admissions", Null)
             sc == IF Truthy(adm) THEN PyGet(adm, scores, Null) ELSE Null
         IN  IF IsRaise(sc) THEN sc
             ELSE IF ~Truthy(sc) THEN l
             ELSE PutChecked(l, target,
                             PyGet(PyGet(sc, "average", EmptyObj), "overall", Null))

\* if latest.get('student') and 'size' in latest['student']
SizeStep(l) ==
    IF IsRaise(l) THEN l
    ELSE LET st == PyGet(l, "student", Null)
         IN  IF ~Truthy(st) THEN l
             ELSE IF ~IsObj(st) THEN Raise("TypeError")
             ELSE IF HasKey(st, "size") THEN Put(l, "size", At(st, "size"))
             ELSE l

\* if latest.get('cost') and latest['cost'].get('tuition')
TuitionStep(l) ==
    IF IsRaise(l) THEN l
    ELSE LET cost == PyGet(l, "cost", Null)
             tu == IF Truthy(cost) THEN PyGet(cost, "tuition", Null) ELSE Null
         IN  IF IsRaise(tu) THEN tu
             ELSE IF ~Truthy(tu) THEN l
             ELSE PutChecked(PutChecked(l, "tuition_in_state", PyGet(tu, "in_state", Null)),
                             "tuition_out_of_state", PyGet(tu, "out_of_state", Null))

\* if latest.get('completion'): the two completion rates
CompletionStep(l) ==
    IF IsRaise(l) THEN l
    ELSE LET co == PyGet(l, "completion", Null)
             l1 == IF HasKey(co, "completion_rate_4yr_150nt")
                   THEN Put(l, "completion_rate_4yr", At(co, "completion_rate_4yr_150nt"))
                   ELSE l
         IN  IF ~Truthy(co) THEN l
             ELSE IF ~IsObj(co) THEN Raise("TypeError")
             ELSE IF HasKey(co, "completion_rate_overall")
             THEN Put(l1, "completion_rate_overall", At(co, "completion_rate_overall"))
             ELSE l1

\* latest = doc.get('latest', {}) or {}
LatestOf(d) == PyOr(PyGet(d, "latest", EmptyObj), EmptyObj)

\* SchoolModel._normalize_school_doc(doc): the document with its `latest`
\* replaced, or Raise(exc)
NormalizeNested(d) ==
    IF ~Truthy(d) THEN d
    ELSE PutChecked(d, "latest",
            CompletionStep(TuitionStep(SizeStep(
                ScoreStep(ScoreStep(AdmissionStep(NetPriceStep(LatestOf(d))),
                                    "sat_scores", "sat_avg"),
                          "act_scores", "act_avg")))))

----------------------------------------------------------------------------
(* routes_schools.py: _merge_costs_into_basic_info on nested documents *)

\* l[target] = x[k] without the test `k in x`: KeyError on an absent key
CopyKeyUnguarded(l, x, k, target) ==
    IF IsRaise(l) THEN l
    ELSE IF InRaises(x) THEN Raise("TypeError")
    ELSE IF HasKey(x, k) THEN Put(l, target, At(x, k))
    ELSE Raise("KeyError")

\* if k in x: l[target] = x[k]
CopyKey(l, x, k, target) ==
    IF IsRaise(l) THEN l
    ELSE IF InRaises(x) THEN Raise("TypeError")
    ELSE IF HasKey(x, k) THEN Put(l, target, At(x, k))
    ELSE l

\* if k in x: l[target] = x[k].get('median')
CopyMedian(l, x, k, target) ==
    IF IsRaise(l) THEN l
    ELSE IF InRaises(x) THEN Raise("TypeError")
    ELSE IF HasKey(x, k) THEN PutChecked(l, target, PyGet(At(x, k), "median", Null))
    ELSE l

\* if 'earnings' in costs
EarningsPart(l, costs) ==
    IF IsRaise(l) \/ ~HasKey(costs, "earnings") THEN l
    ELSE CopyMedian(CopyMedian(l, At(costs, "earnings"), "10_yrs_after_entry",
                               "median_earnings_10yr"),
                    At(costs, "earnings"), "6_yrs_after_entry", "median_earnings_6yr")

\* latest['median_debt'] for aid.median_debt = debt_data
MedianDebt(debt_data) ==
    IF ~IsObj(debt_data) THEN debt_data
    ELSE IF HasKey(debt_data, "completers")
    THEN PyGet(At(debt_data, "completers"), "overall", Null)
    ELSE PyGet(debt_data, "overall", Null)

\* if 'aid' in costs
AidPart(l, costs) ==
    IF IsRaise(l) \/ ~HasKey(costs, "aid") THEN l
    ELSE LET aid_data == At(costs, "aid")
             l1 == IF HasKey(aid_data, "median_debt")
                   THEN PutChecked(l, "median_debt", MedianDebt(At(aid_data, "median_debt")))
                   ELSE l
         IN  IF InRaises(aid_data) THEN Raise("TypeError")
             ELSE CopyKey(CopyKey(l1, aid_data, "pell_grant_rate", "pell_grant_rate"),
                          aid_data, "federal_loan_rate", "federal_loan_rate")

\* if 'completion' in costs
CompletionPart(l, costs) ==
    IF IsRaise(l) \/ ~HasKey(costs, "completion") THEN l
    ELSE LET completion_data == At(costs, "completion")
             l1 == CopyKey(l, completion_data, "completion_rate_4yr_150nt",
                           "completion_rate_4yr")
         IN  IF IsRaise(l1) THEN l1
             ELSE IF HasKey(completion_data, "rate_suppressed")
             THEN CopyKey(l1, At(completion_data, "rate_suppressed"), "four_year",
                          "completion_rate_overall")
             ELSE l1

\* if 'repayment' in costs
RepaymentPart(l, costs) ==
    IF IsRaise(l) \/ ~HasKey(costs, "repayment") THEN l
    ELSE CopyKey(l, At(costs, "repayment"), "3_yr_default_rate", "default_rate_3yr")

\* avg_net_price_data.get('overall') or .get('public') or .get('private')
FirstNetPrice(avg_net_price_data) ==
    PyOr(PyOr(PyGet(avg_net_price_data, "overall", Null),
              PyGet(avg_net_price_data, "public", Null)),
         PyGet(avg_net_price_data, "private", Null))

\* if 'cost' in costs
CostPart(l, costs) ==
    IF IsRaise(l) \/ ~HasKey(costs, "cost") THEN l
    ELSE LET cost_data == At(costs, "cost")
             avg_net_price == FirstNetPrice(At(cost_data, "avg_net_price"))
             l1 == IF ~HasKey(cost_data, "avg_net_price") THEN l
                   ELSE IF IsRaise(avg_net_price) THEN avg_net_price
                   ELSE IF Truthy(avg_net_price) THEN Put(l, "avg_net_price", avg_net_price)
                   ELSE l
             l2 == IF IsRaise(l1) \/ ~HasKey(cost_data, "tuition") THEN l1
                   ELSE CopyKey(CopyKey(l1, At(cost_data, "tuition"), "in_state",
                                        "tuition_in_state"),
                                At(cost_data, "tuition"), "out_of_state",
                                "tuition_out_of_state")
         IN  IF InRaises(cost_data) THEN Raise("TypeError") ELSE l2

\* _merge_costs_into_basic_info(basic_info, costs): the merged document, or
\* Raise(exc); costs is Null when find_one found no record
MergeNested(basic_info, costs) ==
    IF IsRaise(basic_info) THEN basic_info
    ELSE IF ~Truthy(basic_info) \/ ~Truthy(costs) THEN basic_info
    ELSE PutChecked(basic_info, "latest",
            CostPart(RepaymentPart(CompletionPart(AidPart(EarningsPart(
                LatestOf(basic_info), costs), costs), costs), costs), costs))

----------------------------------------------------------------------------
(* The shapes of the documents a lookup may fetch: every key of the nested *)
(* structure may be absent, null, a number, or the object the code expects *)

Absent == [t |-> "absent"]

\* the object of the pairs whose value is not Absent
MkObj(pairs) == Obj({p \in pairs : p[2] # Absent})

Prices == {Num(v) : v \in 0..MaxPrice}

\* cost.avg_net_price
AvgNetPriceShapes ==
    {Absent, Null, Num(12)}
    \cup { MkObj({<<"overall", o>>, <<"public", pu>>}) :
             o \in {Absent, Null} \cup Prices, pu \in {Absent, Num(7)} }

\* cost.tuition
TuitionShapes == {Absent, Null, Obj({<<"in_state", Num(30)>>})}

\* cost, of the institution's `latest` and of the costs record
CostShapes ==
    {Absent, Null, Num(5)}
    \cup { MkObj({<<"avg_net_price", a>>, <<"tuition", tu>>}) :
             a \in AvgNetPriceShapes, tu \in TuitionShapes }

\* latest.admissions
AdmissionsShapes ==
    {Absent, Null}
    \cup { MkObj({<<"admission_rate", a>>}) :
             a \in {Absent, Null, Num(80), Obj({<<"overall", Num(80)>>})} }

\* latest.student
StudentShapes == {Absent, Null, Obj({<<"size", Num(300)>>})}

\* completion
CompletionShapes == {Absent, Null, Obj({<<"completion_rate_4yr_150nt", Num(60)>>})}

\* the institution documents
SchoolShapes ==
    { MkObj({<<"school_id", Num(1)>>, <<"latest", l>>}) : l \in {Absent, Null} }
    \cup
    { MkObj({ <<"school_id", Num(1)>>,
             <<"latest", MkObj({ <<"cost", c>>, <<"admissions", a>>, <<"student", st>>,
                                 <<"completion", co>> })>> }) :
        c \in CostShapes, a \in AdmissionsShapes, st \in StudentShapes,
        co \in CompletionShapes }

\* earnings of the costs record
EarningsShapes ==
    { Absent, Null, EmptyObj, Obj({<<"10_yrs_after_entry", Null>>}),
      Obj({<<"10_yrs_after_entry", Obj({<<"median", Num(41)>>})>>}) }

\* aid of the costs record
AidShapes ==
    { Absent, Null, EmptyObj, Obj({<<"median_debt", Num(9)>>}),
      Obj({<<"median_debt", Obj({<<"completers", Obj({<<"overall", Num(9)>>})>>})>>}) }

\* repayment of the costs record
RepaymentShapes == {Absent, Null, Obj({<<"3_yr_default_rate", Num(2)>>})}

\* the records of costs_aid_completion
CostsShapes ==
    { MkObj({ <<"school_id", Num(1)>>, <<"year", Num(2023)>>, <<"earnings", e>>,
             <<"aid", a>>, <<"completion", co>>, <<"repayment", r>>, <<"cost", c>> }) :
        e \in EarningsShapes, a \in AidShapes, co \in CompletionShapes,
        r \in RepaymentShapes, c \in CostShapes }

\* the documents with every key present in the shape the code expects, their
\* values unlike those of the shapes above
CanonicalSchool ==
    Obj({ <<"school_id", Num(1)>>,
          <<"latest", Obj({ <<"cost", Obj({ <<"avg_net_price", Obj({<<"overall", Num(1)>>})>>,
                                            <<"tuition", Obj({<<"in_state", Num(31)>>})>> })>>,
                            <<"admissions",
                              Obj({<<"admission_rate", Obj({<<"overall", Num(80)>>})>>})>>,
                            <<"student", Obj({<<"size", Num(300)>>})>>,
                            <<"completion",
                              Obj({<<"completion_rate_4yr_150nt", Num(62)>>})>> })>> })

CanonicalCosts ==
    Obj({ <<"school_id", Num(1)>>, <<"year", Num(2023)>>,
          <<"earnings", Obj({<<"10_yrs_after_entry", Obj({<<"median", Num(41)>>})>>})>>,
          <<"aid", Obj({<<"median_debt", Num(9)>>})>>,
          <<"completion", Obj({<<"completion_rate_4yr_150nt", Num(65)>>})>>,
          <<"repayment", Obj({<<"3_yr_default_rate", Num(2)>>})>>,
          <<"cost", Obj({ <<"avg_net_price", Obj({<<"overall", Num(9)>>})>>,
                          <<"tuition", Obj({<<"in_state", Num(33)>>})>> })>> })

----------------------------------------------------------------------------
(* The lookups of one institution on nested documents: find_by_id,         *)
(* find_by_school_and_year on the costs collection, and what the detail    *)
(* and comparison handlers make of the two                                 *)

DocInput(school, costs) ==
    [ stage |-> "input", school |-> school, costs |-> costs,
      normalized |-> Null, merged |-> Null, status |-> 0, body |-> Null ]

InitDoc ==
    /\ schools = {}
    /\ SatelliteInit
    /\ pc = "doc"
    /\ req = NoRequest
    /\ resp = NoResponse
    /\ calls = <<>>
    /\ db_instance = NoDatabase
    /\ roi = NoRoi
    /\ \/ \E s \in SchoolShapes, c \in {Null, CanonicalCosts} : fetched = DocInput(s, c)
       \/ \E c \in CostsShapes : fetched = DocInput(CanonicalSchool, c)

\* SchoolModel.find_by_id: the fetched document is normalized
NormalizeDoc ==
    /\ pc = "doc" /\ fetched.stage = "input"
    /\ fetched' = [ fetched EXCEPT !.stage = "normalized",
                                   !.normalized = NormalizeNested(fetched.school) ]
    /\ UNCHANGED <<collections, pc, req, resp, calls, roi, db_instance>>

\* _merge_costs_into_basic_info(school, costs_outcomes)
MergeDoc ==
    /\ pc = "doc" /\ fetched.stage = "normalized"
    /\ fetched' = [ fetched EXCEPT !.stage = "merged",
                                   !.merged = MergeNested(fetched.normalized, fetched.costs) ]
    /\ UNCHANGED <<collections, pc, req, resp, calls, roi, db_instance>>

\* the response of a handler whose try block computed `merged`
HandlerResponse(merged, costs) ==
    IF IsRaise(merged) THEN [status |-> 500, body |-> Obj({<<"error", merged>>})]
    ELSE [ status |-> 200,
           body |-> Obj({<<"basic_info", merged>>, <<"costs_outcomes", costs>>}) ]

\* get_school_details for the institution, its data-store calls succeeding
DetailsDoc ==
    /\ pc = "doc" /\ fetched.stage = "input"
    /\ LET out == HandlerResponse(MergeNested(NormalizeNested(fetched.school),
                                               fetched.costs), fetched.costs)
       IN  fetched' = [ fetched EXCEPT !.stage = "details",
                                      !.status = out.status, !.body = out.body ]
    /\ UNCHANGED <<collections, pc, req, resp, calls, roi, db_instance>>

\* compare_schools for the one-element id list of the institution
CompareDoc ==
    /\ pc = "doc" /\ fetched.stage = "input"
    /\ LET out == HandlerResponse(MergeNested(NormalizeNested(fetched.school),
                                               fetched.costs), fetched.costs)
       IN  fetched' = [ fetched EXCEPT !.stage = "compare",
                                      !.status = out.status, !.body = out.body ]
    /\ UNCHANGED <<collections, pc, req, resp, calls, roi, db_instance>>

NextDoc ==
    \/ NormalizeDoc
    \/ MergeDoc
    \/ DetailsDoc
    \/ CompareDoc

SpecDoc == InitDoc /\ [][NextDoc]_vars

----------------------------------------------------------------------------
(* A filter request beside the external import.  SchoolModel.filter_schools *)
(* issues count_documents and find as two calls; the import script, which  *)
(* runs outside the service, may insert into 'schools' at any moment.       *)
(* `fetched` records the collection each of the two calls saw.              *)

\* POST /api/schools/filter with a JSON body, without a major
DriftRequests ==
    { [ endpoint |-> "filter", method |-> "POST", args |-> NoArgs, failAt |-> 0,
        body |-> [ NoFilters EXCEPT !.state = st, !.sort_by = Some("name"),
                                    !.sort_order = so, !.page = pg, !.limit = lm ] ] :
        st \in Opt({"CA"}),
        so \in Opt({"asc"}),
        pg \in Opt({2}),
        lm \in {Some(1), Some(2)} }

\* import_schools_data: db.schools.insert_many(schools, ordered=False) inserts
\* the next institution
ImportWrite ==
    /\ pc \in {"idle", "counted"}
    /\ Cardinality(schools) < MaxSchools
    /\ schools' = schools \cup {SchoolDoc(Cardinality(schools) + 1)}
    /\ UNCHANGED <<academics_programs, costs_aid_completion, admissions_student,
                   programs_field_of_study, pc, req, resp, calls, roi, fetched, db_instance>>

\* total_count = SchoolModel.get_collection().count_documents(query)
FilterCount ==
    /\ pc = "idle"
    /\ \E r \in DriftRequests :
          /\ req' = r
          /\ resp' = [ status |-> 0,
                       total |-> Cardinality({d \in schools :
                                                 QueryMatches(RouteFilters(r), d)}) ]
    /\ calls' = <<"schools.count_documents">>
    /\ pc' = "counted"
    /\ fetched' = [stage |-> "counted", counted |-> schools]
    /\ UNCHANGED <<collections, roi, db_instance>>

\* mutant of PageResponse: the total is taken again with the page
PageResponseRecounted(total_count, page) == page

\* the dict filter_schools returns: the page of find() with the total counted before
PageResponse(total_count, page) == [page EXCEPT !.total = total_count]

\* results = list(find(query).sort(...).skip(skip).limit(limit)), and the response
FilterPage ==
    /\ pc = "counted"
    /\ \E order \in SortedOrders(schools, SortField(RouteFilters(req)),
                                  SortOrder(RouteFilters(req))) :
          LET limit == The(RouteLimit(req))
              out == ModelFilterSchools(schools, RouteFilters(req),
                                        Skip(The(RoutePage(req)), limit), limit, order,
                                        <<>>, 0)
          IN  /\ resp' = PageResponse(resp.total, out.resp)
              /\ calls' = out.calls
    /\ pc' = "responded"
    /\ fetched' = [stage |-> "paged", counted |-> fetched.counted, paged |-> schools]
    /\ UNCHANGED <<collections, req, roi, db_instance>>

\* the response is sent
FinishImport ==
    /\ pc = "responded"
    /\ pc' = "idle"
    /\ req' = NoRequest
    /\ resp' = NoResponse
    /\ calls' = <<>>
    /\ fetched' = NoDoc
    /\ UNCHANGED <<collections, roi, db_instance>>

NextImport ==
    \/ ImportWrite
    \/ FilterCount
    \/ FilterPage
    \/ FinishImport

SpecImport == Init /\ [][NextImport]_vars

----------------------------------------------------------------------------
(* One client paging through a filter result: the same criteria, sort and  *)
(* limit are requested for page 1, 2, ... up to ceil(total / limit), each   *)
(* page by a request of its own over unchanged data.  `fetched` holds the   *)
(* criteria, the next page and the school ids seen so far.                  *)

\* the criteria of the paging client
PagingFilters ==
    { [NoFilters EXCEPT !.state = st, !.sort_by = sb] :
        st \in Opt({"CA"}), sb \in Opt({"name", "cost"}) }

\* ceil(total / limit), for limit >= 1
PageCount(total, limit) == (total + limit - 1) \div limit

InitPaging ==
    /\ \E n \in 0..MaxSchools : schools = {SchoolDoc(i) : i \in 1..n}
    /\ SatelliteInit
    /\ pc = "paging"
    /\ req = NoRequest
    /\ resp = NoResponse
    /\ calls = <<>>
    /\ db_instance = NoDatabase
    /\ roi = NoRoi
    /\ \E f \in PagingFilters, limit \in {1, 2} :
          fetched = [ stage |-> "paging", filters |-> f, limit |-> limit, page |-> 1,
                      pages |-> PageCount(Cardinality({d \in schools : QueryMatches(f, d)}),
                                          limit),
                      seen |-> <<>> ]

\* the request for the next page: SchoolModel.filter_schools with
\* skip = (page - 1) * limit; the cursor sorts anew for every request
ServePage ==
    /\ pc = "paging" /\ fetched.page <= fetched.pages
    /\ \E order \in SortedOrders(schools, SortField(fetched.filters),
                                  SortOrder(fetched.filters)) :
          LET out == ModelFilterSchools(schools, fetched.filters,
                                        Skip(fetched.page, fetched.limit), fetched.limit,
                                        order, <<>>, 0)
          IN  /\ resp' = out.resp
              /\ calls' = out.calls
              /\ fetched' = [ fetched EXCEPT
                                !.page = @ + 1,
                                !.seen = @ \o [k \in 1..Len(out.resp.results) |->
                                                  out.resp.results[k].school_id] ]
    /\ UNCHANGED <<collections, pc, req, roi, db_instance>>

NextPaging == ServePage

SpecPaging == InitPaging /\ [][NextPaging]_vars

----------------------------------------------------------------------------
(* database.py: class Database.  `_client` and `_db` hold the number of the *)
(* MongoClient they belong to; `clients` records of every client created    *)
(* whether its ping succeeded and whether it was closed.  The environment   *)
(* decides at every connect() whether MONGODB_URI is set and whether the    *)
(* server answers the ping.                                                 *)

\* connect(): the instance afterwards and the exception raised, "" for none
Connect(d, uri, ping) ==
    IF ~uri THEN [d |-> d, raised |-> "ValueError"]
    ELSE LET id == Len(d.clients) + 1
             d1 == [ d EXCEPT !._client = Some(id), !._db = Some(id),
                              !.clients = Append(@, [pinged |-> FALSE, closed |-> FALSE]) ]
         IN  IF ~ping THEN [d |-> d1, raised |-> "ConnectionFailure"]
             ELSE [ d |-> [d1 EXCEPT !.clients[id].pinged = TRUE], raised |-> "" ]

\* a call on the singleton ends: its outcome is kept and logged
DbReturn(d, out) ==
    /\ Len(calls) < MaxDbCalls
    /\ db_instance' = [d EXCEPT !.outcome = out]
    /\ calls' = Append(calls, out)

InitDb ==
    /\ schools = {}
    /\ SatelliteInit
    /\ pc = "db"
    /\ req = NoRequest
    /\ resp = NoResponse
    /\ calls = <<>>
    /\ roi = NoRoi
    /\ fetched = NoDoc
    /\ db_instance = NoDatabase

\* Database(): __new__ keeps the one instance, __init__ connects when there is no client
NewDatabase ==
    /\ pc = "db"
    /\ \E uri, ping \in BOOLEAN :
          LET d == [db_instance EXCEPT !._instance = TRUE]
              c == Connect(d, uri, ping)
          IN  IF Has(d._client)
              THEN DbReturn(d, [call |-> "Database", raised |-> "", handle |-> None])
              ELSE DbReturn(c.d, [call |-> "Database", raised |-> c.raised, handle |-> None])
    /\ UNCHANGED <<collections, pc, req, resp, roi, fetched>>

\* get_db(): connects when there is no database handle, then returns the handle
GetDb ==
    /\ pc = "db" /\ db_instance._instance
    /\ \E uri, ping \in BOOLEAN :
          LET c == Connect(db_instance, uri, ping)
          IN  IF Has(db_instance._db)
              THEN DbReturn(db_instance, [ call |-> "get_db", raised |-> "",
                                           handle |-> db_instance._db ])
              ELSE DbReturn(c.d, [ call |-> "get_db", raised |-> c.raised,
                                   handle |-> IF c.raised = "" THEN c.d._db ELSE None ])
    /\ UNCHANGED <<collections, pc, req, resp, roi, fetched>>

\* close(): closes the client, if there is one
Close ==
    /\ pc = "db" /\ db_instance._instance
    /\ DbReturn(IF Has(db_instance._client)
                THEN [db_instance EXCEPT !.clients[The(db_instance._client)].closed = TRUE]
                ELSE db_instance,
                [call |-> "close", raised |-> "", handle |-> None])
    /\ UNCHANGED <<collections, pc, req, resp, roi, fetched>>

NextDb ==
    \/ NewDatabase
    \/ GetDb
    \/ Close

SpecDb == InitDb /\ [][NextDb]_vars

----------------------------------------------------------------------------
(* Vocabulary of the properties *)

Served(endpoint) == pc = "responded" /\ req.endpoint = endpoint

Issued(call) == \E k \in 1..Len(calls) : calls[k] = call

\* the criteria a filter request carries, as the client sent them
RequestedCriteria(r) ==
    IF r.method = "POST" THEN r.body
    ELSE [ GetFilters(r.args) EXCEPT
             !.cost_max = IF Has(r.args.cost_max) THEN ParseInt(The(r.args.cost_max))
                          ELSE None ]

\* the limit a filter request asks for, before the cap
RequestedLimit(r) ==
    IF Has(r.args.limit) THEN ParseInt(The(r.args.limit))
    ELSE IF Has(RouteFilters(r).limit) THEN RouteFilters(r).limit
    ELSE Some(DEFAULT_LIMIT)

AtLeast(field, bound) == Has(bound) => (Has(field) /\ The(field) >= The(bound))
AtMost(field, bound) == Has(bound) => (Has(field) /\ The(field) <= The(bound))

\* the document meets every range and degree criterion that is present
MeetsCriteria(cr, d) ==
    /\ AtLeast(FieldAt(d, SORT_FIELD_MAP.cost), cr.cost_min)
    /\ AtMost(FieldAt(d, SORT_FIELD_MAP.cost), cr.cost_max)
    /\ AtLeast(FieldAt(d, SORT_FIELD_MAP.earnings), cr.earnings_min)
    /\ AtMost(FieldAt(d, SORT_FIELD_MAP.admission_rate), cr.admission_rate_max)
    /\ AtLeast(FieldAt(d, SORT_FIELD_MAP.completion_rate), cr.completion_rate_min)
    /\ AtLeast(FieldAt(d, SORT_FIELD_MAP.size), cr.size_min)
    /\ AtMost(FieldAt(d, SORT_FIELD_MAP.size), cr.size_max)
    /\ Has(cr.degree_level) => d.degree_level = The(cr.degree_level)

\* the school has a 2020 academics record with the major's share at the threshold
OffersMajor(d, major, threshold) ==
    \E a \in academics_programs :
        /\ a.school_id = d.school_id /\ a.year = 2020
        /\ major \in DOMAIN a.program_percentage
        /\ Has(a.program_percentage[major])
        /\ The(a.program_percentage[major]) >= threshold

\* the document meets every criterion the request sets
MeetsRequest(r, d) ==
    LET cr == RequestedCriteria(r)
    IN  /\ MeetsCriteria(cr, d)
        /\ Has(cr.state) => d.state = The(cr.state)
        /\ Has(cr.ownership) => d.ownership = The(cr.ownership)
        /\ Has(cr.school_ids) => InSeq(d.school_id, The(cr.school_ids))
        /\ TruthyStr(RouteMajor(r)) =>
              OffersMajor(d, The(RouteMajor(r)), The(RouteMajorThreshold(r)))

\* the academics lookup of the request ran, did not raise, and found no school
MajorLookupEmpty ==
    /\ Served("filter")
    /\ Len(calls) >= 1 /\ calls[1] = "academics_programs.find"
    /\ req.failAt # 1
    /\ \A d \in academics_programs :
          ~ ( /\ d.year = 2020
              /\ The(RouteMajor(req)) \in DOMAIN d.program_percentage
              /\ Has(d.program_percentage[The(RouteMajor(req))])
              /\ The(d.program_percentage[The(RouteMajor(req))])
                    >= The(RouteMajorThreshold(req)) )

----------------------------------------------------------------------------
(* C1 *)

\* C1: a filter request with a major whose academics lookup finds no school is
\* answered 200 with no results and total 0, and issues neither the count query
\* nor the page query on the schools collection.
C1_MajorShortCircuit ==
    MajorLookupEmpty =>
        /\ resp.status = 200
        /\ resp.results = <<>>
        /\ resp.total = 0
        /\ ~Issued("schools.count_documents")
        /\ ~Issued("schools.find")

C1_Witness ==
    /\ MajorLookupEmpty
    /\ resp.status = 200
    /\ resp.total = 0
    /\ calls = <<"academics_programs.find">>
    /\ schools # {}

----------------------------------------------------------------------------
(* C2 *)

\* C2: whenever the filters carry an institution-id allow-list that is present
\* and empty (from the major lookup or from school_ids of a POST body), a
\* successful filter response has no results and total 0.
C2_EmptyAllowListSuppresses ==
    ( /\ Served("filter")
      /\ resp.status = 200
      /\ EffectiveFilters(req, academics_programs).school_ids = Some(<<>>) )
    => (resp.results = <<>> /\ resp.total = 0)

----------------------------------------------------------------------------
(* C3 *)

\* C3: every institution a filter response returns meets every criterion the
\* request carries among cost min/max, earnings minimum, maximum admission rate,
\* minimum completion rate, size range and degree level.
C3_PresentCriteriaEnforced ==
    (Served("filter") /\ resp.status = 200) =>
        \A k \in 1..Len(resp.results) :
            MeetsCriteria(RequestedCriteria(req), resp.results[k])

----------------------------------------------------------------------------
(* C4 *)

\* C4: the total a filter response reports is the number of documents that meet
\* the criteria the request sets, unset criteria imposing nothing; a request
\* with no criteria matches the whole schools collection.
C4_UnsetCriteriaUnconstrained ==
    (Served("filter") /\ resp.status = 200) =>
        /\ resp.total = Cardinality({d \in schools : MeetsRequest(req, d)})
        /\ (RequestedCriteria(req) = NoFilters /\ ~TruthyStr(RouteMajor(req)))
              => resp.total = Cardinality(schools)

----------------------------------------------------------------------------
(* C5 *)

\* C5: a filter request with state s, ownership o (one of the categories 1, 2, 3)
\* and limit n, 1 <= n <= 100, returns at most n results, each with
\* school.state = s and school.ownership = o.
C5_StateOwnershipLimit ==
    ( /\ Served("filter") /\ resp.status = 200
      /\ TruthyStr(RequestedCriteria(req).state)
      /\ Has(RequestedCriteria(req).ownership)
      /\ The(RequestedCriteria(req).ownership) \in 1..3
      /\ Has(req.args.limit) \/ Has(req.body.limit)
      /\ The(RequestedLimit(req)) \in 1..MAX_LIMIT )
    => /\ Len(resp.results) <= The(RequestedLimit(req))
       /\ \A k \in 1..Len(resp.results) :
             /\ resp.results[k].state = The(RequestedCriteria(req).state)
             /\ resp.results[k].ownership = The(RequestedCriteria(req).ownership)

C5_Witness ==
    /\ Served("filter") /\ resp.status = 200
    /\ RequestedCriteria(req).state = Some("CA")
    /\ RequestedCriteria(req).ownership = Some(1)
    /\ RequestedLimit(req) = Some(1)
    /\ Has(req.args.limit) \/ Has(req.body.limit)
    /\ Len(resp.results) = 1
    /\ resp.total > 1

----------------------------------------------------------------------------
(* C6 *)

\* the documents the request's query selects; none when the major lookup is empty
MatchSet ==
    IF MajorLookupEmpty THEN {}
    ELSE {d \in schools : QueryMatches(EffectiveFilters(req, academics_programs), d)}

PageOf(r) == The(RoutePage(r))

\* a successful filter request for page p >= 1 with a limit in 1..100
PagedRequest ==
    /\ Served("filter") /\ resp.status = 200
    /\ PageOf(req) >= 1
    /\ The(RequestedLimit(req)) \in 1..MAX_LIMIT

\* C6: a filter request for page p >= 1 and limit L in 1..100 over a match set of
\* T institutions returns exactly min(L, max(0, T - (p-1)*L)) results and total = T;
\* the k-th result is preceded in the sort order by exactly (p-1)*L + k - 1 matches.
C6_Pagination ==
    PagedRequest =>
        LET p == PageOf(req)
            L == The(RequestedLimit(req))
            T == Cardinality(MatchSet)
            o == SortOrder(RequestedCriteria(req))
        IN  /\ resp.total = T
            /\ Len(resp.results) = Min(L, Max(0, T - (p - 1) * L))
            /\ RequestedCriteria(req).sort_by = Some("name") =>
                  \A k \in 1..Len(resp.results) :
                      Cardinality({d \in MatchSet : o * d.name < o * resp.results[k].name})
                          = (p - 1) * L + k - 1

C6_Witness ==
    /\ PagedRequest
    /\ PageOf(req) = 2
    /\ RequestedLimit(req) = Some(2)
    /\ resp.total = 3
    /\ Len(resp.results) = 1
    /\ RequestedCriteria(req).sort_by = Some("name")

----------------------------------------------------------------------------
(* C7 *)

\* C7: school comparison answers an id list of more than 10 ids (11 in particular)
\* with a 4xx and issues no data-store call, and answers a list of exactly 10 ids
\* with 200; program comparison does the same at 20 and 21 ids.
C7_IdListMaximum ==
    /\ (Served("compare") /\ Has(CompareIds(req)) /\ Has(CompareYear(req))) =>
          /\ Len(The(CompareIds(req))) > 10 =>
                (resp.status \in 400..499 /\ calls = <<>>)
          /\ (Len(The(CompareIds(req))) = 10 /\ req.failAt = 0) => resp.status = 200
    /\ (Served("compare_programs") /\ TruthyStr(req.body.cip_code)
            /\ Has(req.body.school_ids)) =>
          /\ Len(The(req.body.school_ids)) > 20 =>
                (resp.status \in 400..499 /\ calls = <<>>)
          /\ (Len(The(req.body.school_ids)) = 20 /\ req.failAt = 0) => resp.status = 200

C7_Witness ==
    /\ Served("compare")
    /\ req.method = "GET"
    /\ Has(CompareIds(req)) /\ Len(The(CompareIds(req))) = 11
    /\ resp.status = 400
    /\ calls = <<>>
    /\ schools # {}

----------------------------------------------------------------------------
(* C8 *)

NoSuchSchool(school_id) == \A d \in schools : d.school_id # school_id

\* C8: a detail lookup for an id with no document in the schools collection is
\* never answered 200; for every integer year and every include_history value it
\* is answered 404 with an error body once the lookup itself has come back.
C8_MissingSchoolIs404 ==
    (Served("details") /\ NoSuchSchool(req.school_id)) =>
        /\ resp.status # 200
        /\ ((~Has(req.args.year) \/ Has(ParseInt(The(req.args.year)))) /\ req.failAt # 1)
              => (resp.status = 404 /\ "error" \in DOMAIN resp)

C8_Witness ==
    /\ Served("details")
    /\ NoSuchSchool(req.school_id)
    /\ schools # {}
    /\ req.args.include_history = Some("True")
    /\ Has(req.args.year)
    /\ resp.status = 404
    /\ calls = <<"schools.find_one">>

----------------------------------------------------------------------------
(* C9, C10: under SpecRoi *)

RoiComputed == pc = "roi" /\ roi.endpoint \in {"ranking", "state_value", "school_metrics"}

BothPositive(c, e) == Has(c) /\ Has(e) /\ The(c) > 0 /\ The(e) > 0

----------------------------------------------------------------------------
(* C11 *)

\* a state aggregation scoped to a state none of whose institutions is matched
EmptyStateScope ==
    /\ Served("state_aggregations")
    /\ TruthyStr(req.args.state)
    /\ StateGroup(costs_aid_completion, schools, The(req.args.state)) = {}

\* C11: the state aggregation scoped to a state with zero matching institutions
\* answers 200 with one aggregation object for that state whose school_count is 0
\* and whose averages are all null.
C11_EmptyStateAggregation ==
    (EmptyStateScope /\ req.failAt = 0) =>
        /\ resp.status = 200
        /\ Len(resp.aggregations) = 1
        /\ resp.aggregations[1]._id = The(req.args.state)
        /\ resp.aggregations[1].school_count = 0
        /\ resp.aggregations[1].avg_cost = None
        /\ resp.aggregations[1].avg_earnings_10yr = None
        /\ resp.aggregations[1].avg_completion_rate = None

----------------------------------------------------------------------------
(* C12 *)

\* the parameter is present and int() / float() rejects its text
BadInt(o) == Has(o) /\ ~Has(ParseInt(The(o)))
BadFloat(o) == Has(o) /\ ~Has(ParseFloat(The(o)))

\* the request carries a malformed numeric parameter of its endpoint
MalformedNumeric(r) ==
    CASE r.endpoint = "filter" ->
            \/ r.method = "GET" /\ BadInt(r.args.ownership)
            \/ BadInt(r.args.page)
            \/ BadInt(r.args.limit)
            \/ TruthyStr(RouteMajor(r)) /\ BadFloat(r.args.major_threshold)
      [] r.endpoint = "compare" ->
            r.method = "GET" /\ (BadInt(r.args.year) \/ ~Has(CompareIds(r)))
      [] r.endpoint = "details" -> BadInt(r.args.year)
      [] r.endpoint = "completion_rates" -> BadInt(r.args.year)
      [] r.endpoint = "search" -> BadInt(r.args.limit)
      [] r.endpoint = "roi" ->
            BadInt(r.args.year) \/ (TruthySeq(r.args.ownership) /\ BadInt(r.args.ownership))
      [] r.endpoint = "cost_vs_earnings" -> BadInt(r.args.year) \/ BadInt(r.args.limit)
      [] r.endpoint \in {"summary_stats", "state_analytics", "state_comparison",
                         "school_analytics"} -> BadInt(r.args.year)
      [] r.endpoint = "program_trends" ->
            BadInt(r.args.start_year) \/ BadInt(r.args.end_year)
      [] OTHER -> FALSE

\* C12: a request with a malformed numeric parameter (page, limit, year,
\* ownership, a school_ids element, major_threshold) is answered with a 4xx
\* status and an error message, on every endpoint that reads the parameter.
C12_MalformedNumericIs4xx ==
    (pc = "responded" /\ MalformedNumeric(req)) =>
        (resp.status \in 400..499 /\ "error" \in DOMAIN resp)

----------------------------------------------------------------------------
(* C13 *)

\* the request carries an enumerated parameter with a value outside its set
OutsideEnumeration(r) ==
    CASE r.endpoint = "filter" ->
            \/ /\ Has(RequestedCriteria(r).sort_by)
               /\ The(RequestedCriteria(r).sort_by) \notin DOMAIN SORT_FIELD_MAP
            \/ /\ Has(RequestedCriteria(r).sort_order)
               /\ The(RequestedCriteria(r).sort_order) \notin {"asc", "desc"}
      [] r.endpoint = "completion_rates" ->
            Has(r.args.group_by) /\ The(r.args.group_by) \notin group_field_map
      [] OTHER -> FALSE

\* C13: a request whose sort_by, sort_order or group_by lies outside its allowed
\* set is answered with a 4xx; it is never served with a substituted default.
\* The case is the one where nothing else is wrong with the request.
C13_OutsideEnumerationIs4xx ==
    (pc = "responded" /\ OutsideEnumeration(req) /\ ~MalformedNumeric(req)
        /\ req.failAt = 0)
    => resp.status \in 400..499

----------------------------------------------------------------------------
(* C14 *)

\* the request omits a parameter its endpoint requires
OmitsRequired(r) ==
    CASE r.endpoint = "search" -> ~TruthyStr(r.args.q)
      [] r.endpoint = "compare" ->
            IF r.method = "POST" THEN ~TruthySeq(r.body.school_ids)
            ELSE ~TruthySeq(r.args.school_ids)
      [] r.endpoint = "program_trends" -> ~TruthyStr(r.args.cip_code)
      [] r.endpoint = "compare_programs" ->
            ~TruthyStr(r.body.cip_code) \/ ~TruthySeq(r.body.school_ids)
      [] OTHER -> FALSE

\* C14: a request that omits a required parameter (search q, comparison
\* school_ids, trends cip_code, program comparison cip_code or school_ids) is
\* answered with a 4xx and issues no data-store call, in the GET and the POST
\* form and for a POST without a JSON body.  The case is the one where the
\* other parameters are well-formed.
C14_MissingRequiredIs4xx ==
    (pc = "responded" /\ OmitsRequired(req) /\ ~MalformedNumeric(req)) =>
        (resp.status \in 400..499 /\ calls = <<>>)

----------------------------------------------------------------------------
(* C15 *)

\* the endpoints whose handlers call CostsAidCompletionModel.get_cost_field_expr
CostExprEndpoints ==
    { "roi", "cost_vs_earnings", "summary_stats", "state_analytics", "state_comparison",
      "school_analytics" }

\* the parameters of the request are present, well-formed and within their ranges
WellFormed(r) ==
    /\ ~MalformedNumeric(r)
    /\ ~OmitsRequired(r)
    /\ ~OutsideEnumeration(r)
    /\ r.endpoint = "filter" => (The(RoutePage(r)) >= 1 /\ The(RouteLimit(r)) >= 1)
    /\ r.endpoint \in {"compare", "compare_programs"} => ~NoJsonBody(r)
    /\ r.endpoint = "compare" => ~TooManySchools(The(CompareIds(r)))
    /\ r.endpoint = "compare_programs" => ~TooManyPrograms(The(r.body.school_ids))

\* C15: a request with well-formed parameters whose data-store calls all succeed
\* is answered 200, or 404 for a missing record, on every endpoint, the ROI
\* ranking, cost-vs-earnings, summary statistics, per-state analytics, state
\* comparison and per-institution analytics included: a 5xx occurs only when a
\* data-store call fails.
C15_OnlyDataStoreFailuresAre5xx ==
    (pc = "responded" /\ WellFormed(req) /\ req.failAt = 0) => resp.status \in {200, 404}

----------------------------------------------------------------------------
(* C16 *)

\* the responses an endpoint gives to the requests of its clients on the current
\* collections
ResponsesOf(endpoint) ==
    CASE endpoint = "details" -> {SchoolDetailsRoute(r).resp : r \in SchoolDetailsRequests}
      [] endpoint = "compare" ->
            {CompareSchoolsRoute(r, exc).resp : r \in CompareRequests, exc \in NoJsonExcs}
      [] endpoint = "compare_programs" ->
            { CompareProgramsRoute(r, exc).resp :
                r \in CompareProgramsRequests, exc \in NoJsonExcs }
      [] endpoint = "program_trends" ->
            {ProgramTrendsRoute(r).resp : r \in ProgramTrendsRequests}
      [] endpoint = "completion_rates" ->
            {CompletionRatesRoute(r).resp : r \in CompletionRatesRequests}
      [] endpoint = "roi" -> {CalculateRoiRoute(r).resp : r \in CalculateRoiRequests}
      [] OTHER -> {}

\* C16: the body of a 5xx response does not depend on the exception raised: any
\* other request to the same endpoint that is answered 5xx receives the
\* identical body.
C16_GenericErrorBody ==
    (pc = "responded" /\ resp.status >= 500) =>
        \A other \in ResponsesOf(req.endpoint) : other.status >= 500 => other = resp

----------------------------------------------------------------------------
(* C17 *)

\* the satellite collection has no record of the school for the year
NoRecord(coll, school_id, year) ==
    \A d \in coll : ~(d.school_id = school_id /\ d.year = year)

\* the normalized document of an institution of the collection
NormalizedSchool(school_id) ==
    NormalizeSchoolDoc(CHOOSE d \in schools : d.school_id = school_id)

\* the sections of one institution in a detail response or a comparison entry
SectionsNullWhenMissing(entry, school_id, year) ==
    /\ NoRecord(academics_programs, school_id, year) => entry.programs = None
    /\ NoRecord(costs_aid_completion, school_id, year) => entry.costs_outcomes = None

\* C17: in the detail and comparison endpoints, an institution that exists but
\* has no satellite record for the requested year is served 200 with the missing
\* sections null, and without a costs record its basic_info is exactly the
\* normalized institution document.
C17_MissingSatelliteIsNull ==
    /\ ( /\ Served("details") /\ ~NoSuchSchool(req.school_id)
          /\ ~BadInt(req.args.year) /\ req.failAt = 0 )
       => /\ resp.status = 200
          /\ SectionsNullWhenMissing(resp, req.school_id, resp.year)
          /\ NoRecord(admissions_student, req.school_id, resp.year)
                => resp.admissions = None
          /\ NoRecord(programs_field_of_study, req.school_id, resp.year)
                => resp.field_of_study = None
          /\ NoRecord(costs_aid_completion, req.school_id, resp.year)
                => resp.basic_info = Some(NormalizedSchool(req.school_id))
    /\ (Served("compare") /\ WellFormed(req) /\ req.failAt = 0) =>
          /\ resp.status = 200
          /\ \A k \in 1..Len(resp.schools) :
                /\ SectionsNullWhenMissing(resp.schools[k], resp.schools[k].school_id,
                                           resp.year)
                /\ NoRecord(costs_aid_completion, resp.schools[k].school_id, resp.year)
                      => resp.schools[k].basic_info
                            = NormalizedSchool(resp.schools[k].school_id)

C17_Witness ==
    /\ Served("details")
    /\ ~NoSuchSchool(req.school_id)
    /\ resp.status = 200
    /\ resp.year = DEFAULT_YEAR
    /\ NoRecord(costs_aid_completion, req.school_id, DEFAULT_YEAR)
    /\ NoRecord(academics_programs, req.school_id, DEFAULT_YEAR)
    /\ resp.programs = None /\ resp.costs_outcomes = None
    /\ resp.admissions = None /\ resp.field_of_study = None
    /\ resp.basic_info = Some(NormalizedSchool(req.school_id))

----------------------------------------------------------------------------
(* Paths of a nested document *)

\* the value at a path of keys; Null when a key is absent or met on a non-object
RECURSIVE Path(_, _)
Path(x, keys) ==
    IF keys = <<>> THEN x
    ELSE IF IsObj(x) /\ HasKey(x, Head(keys)) THEN Path(At(x, Head(keys)), Tail(keys))
    ELSE Null

\* the first non-null value of a sequence of candidates, Null when there is none
RECURSIVE FirstNonNull(_)
FirstNonNull(cands) ==
    IF cands = <<>> THEN Null
    ELSE IF Head(cands) # Null THEN Head(cands)
    ELSE FirstNonNull(Tail(cands))

\* the keys under which the code expects an object
ObjectKeys ==
    { "latest", "cost", "avg_net_price", "tuition", "admissions", "admission_rate",
      "student", "completion", "earnings", "10_yrs_after_entry", "aid", "completers",
      "repayment" }

\* every present key of x holds the shape the code expects: an object under an
\* object key (median_debt may be an object or a number), so that keys are only
\* ever absent, never null and never a scalar in an object's place
RECURSIVE WellShaped(_)
WellShaped(x) ==
    IsObj(x) => \A p \in x.f :
                  /\ p[1] \in ObjectKeys => IsObj(p[2])
                  /\ WellShaped(p[2])

----------------------------------------------------------------------------
(* C18: resolving the net price returns the first non-null value among the *)
(* ordered candidate paths: a candidate holding 0 is a value and wins over *)
(* later candidates, and a record lacking the first path takes the value   *)
(* of a fallback path. Normalization resolves cost.avg_net_price.overall,  *)
(* then cost.tuition.in_state into latest.avg_net_price (null or absent    *)
(* when neither resolves); the merge resolves the costs record's           *)
(* cost.avg_net_price overall, public, private into it.                    *)

NormalizeCandidates(school) ==
    << Path(school, <<"latest", "cost", "avg_net_price", "overall">>),
       Path(school, <<"latest", "cost", "tuition", "in_state">>) >>

MergeCandidates(costs) ==
    << Path(costs, <<"cost", "avg_net_price", "overall">>),
       Path(costs, <<"cost", "avg_net_price", "public">>),
       Path(costs, <<"cost", "avg_net_price", "private">>) >>

C18_NormalizeResolvesFirstNonNull ==
    (fetched.stage = "normalized" /\ ~IsRaise(fetched.normalized))
    => Path(fetched.normalized, <<"latest", "avg_net_price">>)
         = FirstNonNull(NormalizeCandidates(fetched.school))

C18_MergeResolvesFirstNonNull ==
    (fetched.stage = "merged" /\ ~IsRaise(fetched.merged) /\ IsObj(fetched.costs)
       /\ FirstNonNull(MergeCandidates(fetched.costs)) # Null)
    => Path(fetched.merged, <<"latest", "avg_net_price">>)
         = FirstNonNull(MergeCandidates(fetched.costs))

C18_NetPriceFirstNonNull ==
    C18_NormalizeResolvesFirstNonNull /\ C18_MergeResolvesFirstNonNull

----------------------------------------------------------------------------
(* C19: whichever of the nested keys are absent from the institution       *)
(* document and from the costs record, normalization and the merge never   *)
(* raise, and an output whose source is absent is itself absent or null    *)
(* (an output both write keeps what normalization gave it).                *)

\* the outputs of normalization with their sources
NormalizeOutputs ==
    { <<"admission_rate", <<"latest", "admissions", "admission_rate", "overall">>>>,
      <<"size", <<"latest", "student", "size">>>>,
      <<"completion_rate_4yr", <<"latest", "completion", "completion_rate_4yr_150nt">>>> }

\* the outputs only the merge writes, with their sources
MergeOutputs ==
    { <<"median_earnings_10yr", <<"earnings", "10_yrs_after_entry", "median">>>>,
      <<"median_debt", <<"aid", "median_debt">>>>,
      <<"default_rate_3yr", <<"repayment", "3_yr_default_rate">>>> }

C19_NormalizeNeverRaises ==
    (fetched.stage = "normalized" /\ WellShaped(fetched.school))
    => /\ ~IsRaise(fetched.normalized)
       /\ \A o \in NormalizeOutputs :
            Path(fetched.school, o[2]) = Null
            => Path(fetched.normalized, <<"latest", o[1]>>) = Null
       /\ FirstNonNull(NormalizeCandidates(fetched.school)) = Null
          => Path(fetched.normalized, <<"latest", "avg_net_price">>) = Null

C19_MergeNeverRaises ==
    (fetched.stage = "merged" /\ WellShaped(fetched.school) /\ WellShaped(fetched.costs))
    => /\ ~IsRaise(fetched.merged)
       /\ \A o \in MergeOutputs :
            Path(fetched.costs, o[2]) = Null
            => Path(fetched.merged, <<"latest", o[1]>>) = Null
       /\ Path(fetched.costs, <<"cost">>) = Null
          => Path(fetched.merged, <<"latest", "avg_net_price">>)
               = Path(fetched.normalized, <<"latest", "avg_net_price">>)
       /\ Path(fetched.costs, <<"completion">>) = Null
          => Path(fetched.merged, <<"latest", "completion_rate_4yr">>)
               = Path(fetched.normalized, <<"latest", "completion_rate_4yr">>)

C19_AbsentKeysNeverRaise == C19_NormalizeNeverRaises /\ C19_MergeNeverRaises

\* a merge over an institution without `latest.cost` and `latest.admissions` and a
\* costs record without `cost`, `aid` and `repayment`, its earnings an empty object
C19_Witness ==
    /\ fetched.stage = "merged"
    /\ WellShaped(fetched.school) /\ WellShaped(fetched.costs)
    /\ IsObj(fetched.costs)
    /\ Path(fetched.costs, <<"earnings">>) = EmptyObj
    /\ ~HasKey(fetched.costs, "cost") /\ ~HasKey(fetched.costs, "aid")
    /\ ~HasKey(fetched.costs, "repayment")
    /\ ~IsRaise(fetched.merged)
    /\ Path(fetched.merged, <<"latest", "median_earnings_10yr">>) = Null

\* a normalization of an institution whose `latest` lacks cost and admissions
C19_WitnessNormalize ==
    /\ fetched.stage = "normalized"
    /\ WellShaped(fetched.school)
    /\ IsObj(Path(fetched.school, <<"latest">>))
    /\ ~HasKey(Path(fetched.school, <<"latest">>), "cost")
    /\ ~HasKey(Path(fetched.school, <<"latest">>), "admissions")
    /\ HasKey(Path(fetched.school, <<"latest">>), "student")
    /\ Path(fetched.normalized, <<"latest", "size">>) = Num(300)
    /\ Path(fetched.normalized, <<"latest", "avg_net_price">>) = Null

----------------------------------------------------------------------------
(* C20: a nested key that is present but null, or holds a scalar where an  *)
(* object is expected, degrades to null outputs: the request is still      *)
(* answered 200.                                                           *)

C20_MalformedShapeStill200 ==
    fetched.stage \in {"details", "compare"} => fetched.status = 200


----------------------------------------------------------------------------
(* C21: the merge is last-writer-wins per target key: when the costs       *)
(* record supplies a target key the normalized institution already holds   *)
(* (avg_net_price, tuition_in_state, completion_rate_4yr), the merged      *)
(* document carries the costs record's value, whatever that value is.      *)

\* the targets both normalization and the merge write, with the path of the
\* costs record that supplies them (the net price is resolved over candidates)
SharedTargets ==
    { <<"tuition_in_state", <<"cost", "tuition">>, "in_state">>,
      <<"completion_rate_4yr", <<"completion">>, "completion_rate_4yr_150nt">> }

Merged == fetched.stage = "merged" /\ ~IsRaise(fetched.merged) /\ IsObj(fetched.costs)

C21_CopiedKeysLastWriter ==
    Merged =>
        \A t \in SharedTargets :
            LET from == Path(fetched.costs, t[2])
            IN  (/\ IsObj(from) /\ HasKey(from, t[3])
                 /\ Path(fetched.normalized, <<"latest", t[1]>>) # Null)
                => Path(fetched.merged, <<"latest", t[1]>>) = At(from, t[3])

C21_NetPriceLastWriter ==
    (/\ Merged
     /\ FirstNonNull(MergeCandidates(fetched.costs)) # Null
     /\ Path(fetched.normalized, <<"latest", "avg_net_price">>) # Null)
    => Path(fetched.merged, <<"latest", "avg_net_price">>)
         = FirstNonNull(MergeCandidates(fetched.costs))

C21_LastWriterWins == C21_CopiedKeysLastWriter /\ C21_NetPriceLastWriter

\* a merge in which the costs record's tuition and completion rate replaced
\* the different values normalization had given
C21_CopiedWitness ==
    /\ Merged
    /\ Path(fetched.normalized, <<"latest", "tuition_in_state">>) = Num(31)
    /\ Path(fetched.merged, <<"latest", "tuition_in_state">>) = Num(30)
    /\ Path(fetched.normalized, <<"latest", "completion_rate_4yr">>) = Num(62)
    /\ Path(fetched.merged, <<"latest", "completion_rate_4yr">>) = Num(60)


----------------------------------------------------------------------------
(* C22: the results of a filter request are ordered by the physical field  *)
(* mapped from the requested logical sort field, ascending when sort_order *)
(* is asc and descending otherwise; with neither sort_by nor sort_order    *)
(* they are ordered descending by student size.  A document without the    *)
(* field sorts as null, below every value.                                 *)

LogicalSortFields ==
    {"size", "name", "cost", "earnings", "admission_rate", "completion_rate"}

\* a successful filter request whose sort_by is absent or a logical sort field
SortedRequest ==
    /\ Served("filter") /\ resp.status = 200
    /\ \/ ~Has(RequestedCriteria(req).sort_by)
       \/ The(RequestedCriteria(req).sort_by) \in LogicalSortFields

RequestedPath ==
    IF Has(RequestedCriteria(req).sort_by)
    THEN SORT_FIELD_MAP[The(RequestedCriteria(req).sort_by)]
    ELSE "latest.student.size"

RequestedDirection == IF RequestedCriteria(req).sort_order = Some("asc") THEN 1 ELSE -1

C22_ResultsOrdered ==
    SortedRequest =>
        \A k \in 1..(Len(resp.results) - 1) :
            RequestedDirection * SortRank(resp.results[k], RequestedPath)
                <= RequestedDirection * SortRank(resp.results[k + 1], RequestedPath)

\* an ascending request by name that returned two institutions, the smaller name first
C22_Witness ==
    /\ SortedRequest
    /\ RequestedCriteria(req).sort_by = Some("name")
    /\ RequestedCriteria(req).sort_order = Some("asc")
    /\ Len(resp.results) >= 2
    /\ resp.results[1].name < resp.results[2].name

\* a request without sort_by and sort_order that returned a larger institution
\* before a smaller one
C22_DefaultWitness ==
    /\ SortedRequest
    /\ RequestedCriteria(req).sort_by = None /\ RequestedCriteria(req).sort_order = None
    /\ Len(resp.results) >= 2
    /\ resp.results[1].size = Some(300)
    /\ resp.results[Len(resp.results)].size # Some(300)


----------------------------------------------------------------------------
(* C23: in the earnings distribution every joined record of the requested  *)
(* year that passes the state and major filters is counted in exactly one  *)
(* bucket: a value in [b_i, b_i+1) in bucket b_i, a value out of range or  *)
(* missing in the bucket 'other'.                                          *)

\* the joined records of the request that pass its filters
DistributionRecords ==
    EarningsJoined(costs_aid_completion, schools, academics_programs, The(YearArg(req)),
                   req.args.state, req.args.major)

\* the bucket the claim gives a record
ClaimedBucket(p) ==
    IF Has(p[1].earnings_10yr) THEN BucketOf(The(p[1].earnings_10yr)) ELSE OtherBucket

\* how many records the response counts in bucket b
CountedIn(b) ==
    IF \E d \in resp.distribution : d._id = b
    THEN (CHOOSE d \in resp.distribution : d._id = b).count
    ELSE 0

DistributionServed == Served("earnings_distribution") /\ resp.status = 200

C23_EveryRecordInOneBucket ==
    DistributionServed =>
        \A p \in DistributionRecords :
            CountedIn(ClaimedBucket(p))
                = Cardinality({q \in DistributionRecords : ClaimedBucket(q) = ClaimedBucket(p)})

\* the records that carry a positive value are counted in the bucket of the value
C23_PositiveValuesBucketed ==
    DistributionServed =>
        \A p \in EarningsMatched(DistributionRecords) :
            CountedIn(ClaimedBucket(p))
                = Cardinality({q \in EarningsMatched(DistributionRecords) :
                                  ClaimedBucket(q) = ClaimedBucket(p)})


----------------------------------------------------------------------------
(* C24: in the grouped aggregates (state aggregations, completion-rate     *)
(* groups) a record that lacks one numeric field is left out of that       *)
(* field's statistic only: it is counted in its group's school_count and   *)
(* contributes to the group's other averages.                              *)

\* the average of a field over the records of a group that carry it
AvgOfPresent(group, field) ==
    IF \A p \in group : ~Has(p[1][field]) THEN None
    ELSE Some(Frac(SumField({p \in group : Has(p[1][field])}, field),
                   Cardinality({p \in group : Has(p[1][field])})))

\* the joined records of year 2020 in the state of an aggregation document
RecordsOfState(st) ==
    { p \in costs_aid_completion \X schools :
        p[1].year = 2020 /\ p[2].school_id = p[1].school_id /\ p[2].state = st }

\* the joined records of the requested year in the group of a completion document
RecordsOfGroup(key) ==
    { p \in costs_aid_completion \X schools :
        /\ p[1].year = resp.year /\ p[2].school_id = p[1].school_id
        /\ GroupKey(p[2], resp.group_by) = key }

C24_StateAggregatesSkipPerField ==
    (Served("state_aggregations") /\ resp.status = 200)
    => \A k \in 1..Len(resp.aggregations) :
          LET doc == resp.aggregations[k]
              group == RecordsOfState(doc._id)
          IN  /\ doc.school_count = Cardinality(group)
              /\ doc.avg_cost = AvgOfPresent(group, "avg_net_price")
              /\ doc.avg_earnings_10yr = AvgOfPresent(group, "earnings_10yr")
              /\ doc.avg_completion_rate = AvgOfPresent(group, "completion_rate_4yr")

C24_CompletionGroupsCountAll ==
    (Served("completion_rates") /\ resp.status = 200)
    => \A k \in 1..Len(resp.data) :
          /\ resp.data[k].school_count = Cardinality(RecordsOfGroup(resp.data[k]._id))
          /\ resp.data[k].avg_completion_4yr
               = AvgOfPresent(RecordsOfGroup(resp.data[k]._id), "completion_rate_4yr")

C24_PartialRecordsKept ==
    C24_StateAggregatesSkipPerField /\ C24_CompletionGroupsCountAll

\* a state document whose group holds a record without a net price: the record
\* is counted and its earnings are averaged
C24_StateWitness ==
    /\ Served("state_aggregations") /\ resp.status = 200
    /\ \E k \in 1..Len(resp.aggregations) :
          /\ resp.aggregations[k].school_count = 2
          /\ \E p \in RecordsOfState(resp.aggregations[k]._id) :
                ~Has(p[1].avg_net_price) /\ Has(p[1].earnings_10yr)
          /\ \E p \in RecordsOfState(resp.aggregations[k]._id) : Has(p[1].avg_net_price)


----------------------------------------------------------------------------
(* C25: whatever requests are served, in whatever order, the five          *)
(* collections keep their contents: every data-store call of a handler is  *)
(* a read, and the documents a handler normalizes or merges in memory are  *)
(* not written back, so no later request sees them.                        *)

ReadCalls ==
    { "schools.find", "schools.find_one", "schools.count_documents",
      "academics_programs.find", "academics_programs.find_one",
      "costs_aid_completion.find", "costs_aid_completion.find_one",
      "costs_aid_completion.aggregate", "admissions_student.find_one",
      "programs_field_of_study.find_one", "programs_field_of_study.aggregate" }

OnlyReads == \A k \in 1..Len(calls) : calls[k] \in ReadCalls

----------------------------------------------------------------------------
(* C26: a filter request issues the count and the page query as two        *)
(* data-store calls over the same predicate, count first; when an import   *)
(* write lands between them the request still answers 200, with the total  *)
(* taken before the write and the page taken after it, without retry,      *)
(* reconciliation or error.                                                *)

\* the institutions of a collection that the request's predicate selects
Selected(coll) == {d \in coll : QueryMatches(RouteFilters(req), d)}

C26_CountThenPage ==
    (pc = "responded" /\ fetched.stage = "paged")
    => /\ resp.status = 200
       /\ calls = <<"schools.count_documents", "schools.find">>
       /\ resp.total = Cardinality(Selected(fetched.counted))
       /\ \A k \in 1..Len(resp.results) :
             \E d \in Selected(fetched.paged) : resp.results[k] = NormalizeSchoolDoc(d)
       /\ Len(resp.results)
            = Min(resp.limit,
                  Max(0, Cardinality(Selected(fetched.paged))
                           - Skip(The(RoutePage(req)), resp.limit)))

\* an import inserted a selected institution between the two calls: the page
\* shows it, the total does not count it
C26_Witness ==
    /\ pc = "responded" /\ fetched.stage = "paged"
    /\ resp.status = 200
    /\ Cardinality(Selected(fetched.paged)) = Cardinality(Selected(fetched.counted)) + 1
    /\ resp.total = Cardinality(Selected(fetched.counted))
    /\ \E k \in 1..Len(resp.results) :
          \A d \in fetched.counted : resp.results[k] # NormalizeSchoolDoc(d)


----------------------------------------------------------------------------
(* C27: for every filter request with integer page and limit the           *)
(* response's limit is min(requested limit, 100) and its page is the       *)
(* requested page, on the normal path and on the major short-circuit path, *)
(* limit = 0 and page <= 0 included.                                       *)

\* a filter request whose numeric parameters parse and whose data-store calls succeed
IntegerPaging ==
    /\ Served("filter")
    /\ ~MalformedNumeric(req)
    /\ req.failAt = 0

PagingEchoed ==
    /\ resp.status = 200
    /\ resp.limit = Min(The(RequestedLimit(req)), MAX_LIMIT)
    /\ resp.page = PageOf(req)

C27_PageAndLimitEchoed == IntegerPaging => PagingEchoed

\* the same for page >= 1 and limit >= 1
C27_PositivePagingEchoed ==
    (IntegerPaging /\ PageOf(req) >= 1 /\ The(RequestedLimit(req)) >= 1) => PagingEchoed

\* the short-circuit path echoes limit = 0 and page = 0
C27_ShortCircuitWitness ==
    /\ IntegerPaging /\ MajorLookupEmpty
    /\ PageOf(req) = 0 /\ RequestedLimit(req) = Some(0)
    /\ PagingEchoed


----------------------------------------------------------------------------
(* C28: with unchanged data and fixed criteria, sort field and limit L,    *)
(* requesting pages 1..ceil(total/L) in sequence returns every matching    *)
(* institution exactly once, also when institutions share a sort-key value *)
(* or lack the sort field.                                                 *)

\* every page of the sequence has been served
AllPagesServed == pc = "paging" /\ fetched.page > fetched.pages

MatchingIds == {d.school_id : d \in {e \in schools : QueryMatches(fetched.filters, e)}}

EveryMatchOnce ==
    /\ {fetched.seen[k] : k \in 1..Len(fetched.seen)} = MatchingIds
    /\ \A j, k \in 1..Len(fetched.seen) : j # k => fetched.seen[j] # fetched.seen[k]

C28_PagesCoverEveryMatchOnce == AllPagesServed => EveryMatchOnce

\* the same for a sort field on which no two institutions agree
C28_UniqueKeyPagesCover ==
    (AllPagesServed /\ fetched.filters.sort_by = Some("name")) => EveryMatchOnce


----------------------------------------------------------------------------
(* C29: the school comparison lists the institutions in the order of the   *)
(* requested id list, with one entry per requested id that exists in       *)
(* 'schools' (a repeated id gives repeated, identical entries), leaves out *)
(* ids without an institution, and answers 200 with an empty list when     *)
(* none of the 1..10 requested ids exists.                                 *)

\* a comparison of 1..10 ids whose parameters parse and whose calls succeed
ComparisonServed ==
    /\ Served("compare")
    /\ ~NoJsonBody(req)
    /\ Has(CompareIds(req)) /\ Has(CompareYear(req))
    /\ Len(The(CompareIds(req))) \in 1..MAX_COMPARE_SCHOOLS
    /\ req.failAt = 0

\* the requested ids that have an institution, in the requested order
ExistingRequested == SelectSeq(The(CompareIds(req)), LAMBDA i : ~NoSuchSchool(i))

C29_ComparisonFollowsRequest ==
    ComparisonServed =>
        /\ resp.status = 200
        /\ [k \in 1..Len(resp.schools) |-> resp.schools[k].school_id] = ExistingRequested
        /\ \A j, k \in 1..Len(resp.schools) :
              resp.schools[j].school_id = resp.schools[k].school_id
              => resp.schools[j] = resp.schools[k]

\* ids 1..4 exist, 5 does not: the ten requested ids 1,2,3,4,5,1,2,3,4,5 give
\* eight entries, the repeated ones alike
C29_Witness ==
    /\ ComparisonServed
    /\ Len(The(CompareIds(req))) = MAX_COMPARE_SCHOOLS
    /\ Len(ExistingRequested) \in 2..(MAX_COMPARE_SCHOOLS - 1)
    /\ Len(resp.schools) = Len(ExistingRequested)
    /\ \E j, k \in 1..Len(resp.schools) : j # k /\ resp.schools[j] = resp.schools[k]

\* none of the requested ids exists: 200 with an empty list
C29_EmptyWitness ==
    /\ ComparisonServed
    /\ schools # {}
    /\ ExistingRequested = <<>>
    /\ resp.status = 200 /\ resp.schools = <<>>

\* the ids 2, 1 are answered in that order
C29_OrderWitness ==
    /\ ComparisonServed
    /\ The(CompareIds(req)) = <<2, 1>>
    /\ Len(resp.schools) = 2
    /\ resp.schools[1].school_id = 2 /\ resp.schools[2].school_id = 1


----------------------------------------------------------------------------
(* C30: the Database singleton hands out a database handle only from a     *)
(* connection whose ping succeeded: after a connect() that raised (missing *)
(* URI, failed ping) the instance holds no client and no database handle,  *)
(* so that the next Database() or get_db() connects again; and after       *)
(* close() get_db() returns no handle of the closed client.                *)

LastCall == db_instance.outcome

HoldsNothing == db_instance._client = None /\ db_instance._db = None

\* the client a returned handle belongs to
HandedClient == db_instance.clients[The(LastCall.handle)]

C30_NothingHeldAfterFailedConnect == LastCall.raised # "" => HoldsNothing

C30_HandleIsVerifiedAndOpen ==
    (LastCall.call = "get_db" /\ Has(LastCall.handle))
    => (HandedClient.pinged /\ ~HandedClient.closed)

C30_OnlyVerifiedHandles ==
    C30_NothingHeldAfterFailedConnect /\ C30_HandleIsVerifiedAndOpen

\* a connect() that raised for a missing URI on an instance that held nothing
\* leaves it holding nothing
C30_MissingUriHoldsNothing ==
    (LastCall.raised = "ValueError" /\ db_instance.clients = <<>>) => HoldsNothing


====
